---------------------------- MODULE Spec2Model ----------------------------
(***************************************************************************)
(* A model of the event replay engines of the fleet tracking dashboard:    *)
(* class MockEventStreamAPI (src/src/api/mockEventStream.js), driven by a  *)
(* wall clock (Date.now) and by the animation-frame callbacks it schedules *)
(* for itself, and class SimulationEngine                                  *)
(* (src/src/utils/simulationEngine.js), driven by the same wall clock and  *)
(* by the interval timer it sets.  The two are independent objects: Spec   *)
(* runs a MockEventStreamAPI next to a SimulationEngine that is left       *)
(* alone, EngineSpec runs a SimulationEngine next to a MockEventStreamAPI  *)
(* that is left alone.  The further specifications keep these actions and  *)
(* widen one thing each: SpeedSpec the multipliers handed to               *)
(* setSpeedMultiplier, TwinSpec runs two streams under the same calls with *)
(* separate frame schedules, ReplaySpec builds both classes from the same  *)
(* data, ListenerSpec lets a listener call stopStream(), CallbackSpec lets *)
(* an engine callback throw, MalformedSpec admits timestamps Date cannot   *)
(* parse and EpochSpec admits instants at and before the epoch.            *)
(* SecondSpec runs the second definition of class MockEventStreamAPI in    *)
(* mockEventStream.js (lines 306-530) on trips given as arrays and as      *)
(* {events: [...]} objects, ForwardSpec plays a stream that is never       *)
(* sought or reset, and LinearSpec plays two streams of the same data at   *)
(* two speeds from the same position.  MetricsSpec applies the metrics     *)
(* functions calculateTripMetrics (src/src/utils/dataLoader.js) and        *)
(* calculateTripMetricsFromEvents (src/src/redux/store.js) to the events   *)
(* of one trip.  ServerSpec asks a MockAPIServer (getEvents and            *)
(* getTripEvents) for the events of trips that are and are not in its      *)
(* data.  SimulationHookSpec and StreamHookSpec run the hooks              *)
(* useSimulation and useMockEventStream (src/src/hooks/useFleetData.js) of *)
(* one mounted component, whose state is the record hook.  RunSpec plays   *)
(* runs of a SimulationEngine with pauses, resumes and changes of speed,   *)
(* and OperationsSpec calls every operation of a SimulationEngine in any   *)
(* order; the history variable engineLog records what the engine has       *)
(* passed to its event callback and whether a call has thrown.             *)
(*                                                                         *)
(* Numbers.  The engine computes with JavaScript Numbers.  A Number is     *)
(* modelled as an extended rational [n |-> numerator, d |-> denominator]:  *)
(* d > 0 is the finite value n/d in lowest terms, 1/0 is Infinity, -1/0 is *)
(* -Infinity and 0/0 is NaN.  The arithmetic is exact; binary rounding is  *)
(* not modelled.  The speeds and seek positions the model draws are dyadic *)
(* (1/2, 1, 2, ...) and all instants are integers, so that every value the *)
(* model computes is computed without rounding by IEEE doubles as well.    *)
(*                                                                         *)
(* Listeners.  The registered event and completion listeners are observers *)
(* that return normally and do not call back into the engine, except in    *)
(* ListenerSpec and CallbackSpec; what they have been handed is recorded   *)
(* in the history variables delivered, completions and completeSnap.       *)
(***************************************************************************)
EXTENDS Integers, Sequences, FiniteSets

(***************************************************************************)
(* Bounds of the model.                                                    *)
(***************************************************************************)
\* event instants are drawn from 1..MaxTs (milliseconds since the epoch)
MaxTs == 2
\* the trips of the input hold at most MaxEvents events together
MaxEvents == 2
\* the wall clock runs from 0 to MaxNow
MaxNow == 3
\* the completion counter saturates at MaxCount
MaxCount == 2
\* the metrics functions are handed at most MaxTripEvents events
MaxTripEvents == 3

\* the trips of the input mapping, in the order of Object.entries
TripOrder == <<"A", "B">>

(***************************************************************************)
(* JavaScript Numbers as extended rationals.                               *)
(***************************************************************************)
Abs(i) == IF i < 0 THEN -i ELSE i

Sgn(i) == IF i < 0 THEN -1 ELSE IF i > 0 THEN 1 ELSE 0

RECURSIVE Gcd(_, _)
Gcd(a, b) == IF b = 0 THEN a ELSE Gcd(b, a % b)

\* the Number n/d, in lowest terms with a denominator >= 0
Norm(n, d) ==
  IF d = 0 THEN [n |-> Sgn(n), d |-> 0]
  ELSE LET g == Gcd(Abs(n), Abs(d))
       IN  [n |-> (Sgn(d) * n) \div g, d |-> Abs(d) \div g]

Num(i) == [n |-> i, d |-> 1]

NaN == [n |-> 0, d |-> 0]

IsNaN(x) == x.d = 0 /\ x.n = 0

IsInf(x) == x.d = 0 /\ x.n # 0

\* isFinite(x)
IsFinite(x) == x.d # 0

RNeg(x) == [n |-> -x.n, d |-> x.d]

\* x + y
RAdd(x, y) ==
  IF IsInf(x) /\ IsInf(y)
  THEN (IF x.n = y.n THEN x ELSE NaN)
  ELSE Norm(x.n * y.d + y.n * x.d, x.d * y.d)

\* x - y
RSub(x, y) == RAdd(x, RNeg(y))

\* x * y
RMul(x, y) == Norm(x.n * y.n, x.d * y.d)

\* 1 / y
Recip(y) == IF y.n < 0 THEN [n |-> -y.d, d |-> -y.n] ELSE [n |-> y.d, d |-> y.n]

\* x / y
RDiv(x, y) == RMul(x, Recip(y))

\* x < y (false when either is NaN)
RLt(x, y) ==
  /\ ~IsNaN(x)
  /\ ~IsNaN(y)
  /\ IF IsInf(x) /\ IsInf(y) THEN x.n < y.n ELSE x.n * y.d < y.n * x.d

\* x > y
RGt(x, y) == RLt(y, x)

\* x <= y (false when either is NaN)
RLe(x, y) == ~IsNaN(x) /\ ~IsNaN(y) /\ ~RLt(y, x)

\* x >= y
RGe(x, y) == RLe(y, x)

\* Math.min(x, y)
RMin(x, y) == IF IsNaN(x) \/ IsNaN(y) THEN NaN ELSE IF RLt(y, x) THEN y ELSE x

\* Math.max(x, y)
RMax(x, y) == IF IsNaN(x) \/ IsNaN(y) THEN NaN ELSE IF RGt(y, x) THEN y ELSE x

PosInfinity == [n |-> 1, d |-> 0]

NegInfinity == [n |-> -1, d |-> 0]

(***************************************************************************)
(* The input: trips of events.                                             *)
(***************************************************************************)
Timestamps == 1..MaxTs

\* the sequences of at most n instants
TsSeqs(n) == UNION {[1..k -> Timestamps] : k \in 0..n}

\* the event at position j of trip i, at instant t
Event(i, j, t) == [tripId |-> TripOrder[i], idx |-> j, timestamp |-> t]

RECURSIVE TotalLen(_)
TotalLen(trips) ==
  IF trips = <<>> THEN 0 ELSE Len(Head(trips)) + TotalLen(Tail(trips))

\* the tripsData mappings: the first k trips, each an array of events in any
\* order of their instants
TripsDataSets ==
  UNION {
    { [i \in 1..k |-> [j \in 1..Len(tss[i]) |-> Event(i, j, tss[i][j])]]
        : tss \in {t \in [1..k -> TsSeqs(MaxEvents)] : TotalLen(t) <= MaxEvents} }
    : k \in 0..Len(TripOrder) }

\* a timestamp text that Date cannot parse, e.g. 'n/a'; the other
\* timestamps are written as the instant they parse to
Unparsable == -(MaxTs + 1)

\* new Date(event.timestamp).getTime()
GetTime(event) ==
  IF event.timestamp = Unparsable THEN NaN ELSE Num(event.timestamp)

(***************************************************************************)
(* _indexEvents                                                            *)
(***************************************************************************)
RECURSIVE Flatten(_)
Flatten(trips) ==
  IF trips = <<>> THEN <<>> ELSE Head(trips) \o Flatten(Tail(trips))

\* an insertion that places e before the elements of its own instant
RECURSIVE InsertBeforeEqual(_, _)
InsertBeforeEqual(e, s) ==
  IF s = <<>> THEN <<e>>
  ELSE IF RLe(RSub(GetTime(e), GetTime(Head(s))), Num(0))
       THEN <<e>> \o s
       ELSE <<Head(s)>> \o InsertBeforeEqual(e, Tail(s))

\* e placed in the sorted sequence s after every element that is not later
RECURSIVE InsertSorted(_, _)
InsertSorted(e, s) ==
  IF s = <<>> THEN <<e>>
  ELSE IF RLt(RSub(GetTime(e), GetTime(Head(s))), Num(0))
       THEN <<e>> \o s
       ELSE <<Head(s)>> \o InsertSorted(e, Tail(s))

\* Array.prototype.sort with the comparator timeA - timeB (a stable sort)
RECURSIVE SortEvents(_)
SortEvents(s) ==
  IF s = <<>> THEN <<>>
  ELSE InsertSorted(s[Len(s)], SortEvents(SubSeq(s, 1, Len(s) - 1)))

\* the running minimum of the instants, from Infinity
RECURSIVE MinOver(_, _)
MinOver(s, acc) ==
  IF s = <<>> THEN acc
  ELSE MinOver(Tail(s), IF RLt(GetTime(Head(s)), acc) THEN GetTime(Head(s)) ELSE acc)

\* the running maximum of the instants, from -Infinity
RECURSIVE MaxOver(_, _)
MaxOver(s, acc) ==
  IF s = <<>> THEN acc
  ELSE MaxOver(Tail(s), IF RGt(GetTime(Head(s)), acc) THEN GetTime(Head(s)) ELSE acc)

IndexEvents(trips) ==
  LET pushed == Flatten(trips)
      lo     == MinOver(pushed, PosInfinity)
      hi     == MaxOver(pushed, NegInfinity)
      minT   == IF ~IsFinite(lo) THEN Num(0) ELSE lo
      maxT   == IF ~IsFinite(hi) THEN Num(0) ELSE hi
  IN  [allEvents     |-> SortEvents(pushed),
       minTimestamp  |-> minT,
       maxTimestamp  |-> maxT,
       totalDuration |-> RSub(maxT, minT)]

(***************************************************************************)
(* The input of SimulationEngine: an array of trips {id, events}.  The     *)
(* engine keeps the simulated time as an absolute instant, so the instants *)
(* of its events are drawn on both sides of the epoch (instant 0).         *)
(***************************************************************************)
EngineTimestamps == (1 - MaxTs)..(MaxTs - 1)

EngineTsSeqs(n) == UNION {[1..k -> EngineTimestamps] : k \in 0..n}

EngineTripsSets ==
  UNION {
    { [i \in 1..k |->
         [id     |-> TripOrder[i],
          events |-> [j \in 1..Len(tss[i]) |-> Event(i, j, tss[i][j])]]]
        : tss \in {t \in [1..k -> EngineTsSeqs(MaxEvents)] : TotalLen(t) <= MaxEvents} }
    : k \in 0..Len(TripOrder) }

\* Math.min(...events.map(e => new Date(e.timestamp).getTime()))
RECURSIVE MathMin(_)
MathMin(events) ==
  IF events = <<>> THEN PosInfinity
  ELSE RMin(GetTime(Head(events)), MathMin(Tail(events)))

\* Math.max(...events.map(e => new Date(e.timestamp).getTime()))
RECURSIVE MathMax(_)
MathMax(events) ==
  IF events = <<>> THEN NegInfinity
  ELSE RMax(GetTime(Head(events)), MathMax(Tail(events)))

\* the trips.forEach of getEarliestTimestamp, from the value earliest
RECURSIVE EarliestOver(_, _)
EarliestOver(ts, earliest) ==
  IF ts = <<>> THEN earliest
  ELSE EarliestOver(Tail(ts),
                    IF Len(Head(ts).events) > 0
                    THEN RMin(earliest, MathMin(Head(ts).events))
                    ELSE earliest)

\* the trips.forEach of getLatestTimestamp, from the value latest
RECURSIVE LatestOver(_, _)
LatestOver(ts, latest) ==
  IF ts = <<>> THEN latest
  ELSE LatestOver(Tail(ts),
                  IF Len(Head(ts).events) > 0
                  THEN RMax(latest, MathMax(Head(ts).events))
                  ELSE latest)


(***************************************************************************)
(* The inputs of the operations.                                           *)
(***************************************************************************)
\* the speed multipliers passed to the constructor and to setSpeedMultiplier
Speeds == {Norm(1, 2), Num(1), Num(2)}

\* the positions passed to seekToProgress: inside and outside [0, 1]
Progresses == {Norm(-1, 2), Num(0), Norm(1, 2), Num(1), Norm(3, 2)}

\* what a method that ends without a return statement hands to its caller
Undefined == "undefined"

\* history values: no seek is waiting for its tick; no completion was seen
NoSeek == [n |-> 0, d |-> -1]

NoSnap == [taken |-> FALSE]

\* null, the simulationTime of an engine that is not started: a value that
\* is no Number
Null == [n |-> 0, d |-> -1]

(***************************************************************************)
(* The state.                                                              *)
(***************************************************************************)
VARIABLES
  \* the fields of a MockEventStreamAPI instance
  tripsData, allEvents, minTimestamp, maxTimestamp, totalDuration,
  speedMultiplier, isStreaming, currentTime, startTime, lastTimestamp,
  streamFrameId,
  \* the environment: Date.now() and the animation-frame callbacks requested
  \* and neither run nor cancelled yet
  now, pendingFrames,
  \* history: the events handed to the event listeners since the last
  \* construction, accepted seek or reset, in order
  delivered,
  \* history: whether _streamEvents has run past its guard since then
  ticked,
  \* history: the number of _emitComplete calls since then (saturating)
  completions,
  \* history: what the completion listeners saw at the last _emitComplete
  completeSnap,
  \* history: the progress asked for by an accepted seek that no run of
  \* _streamEvents has served yet
  seekTarget,
  \* history: whether the last step called _emitComplete
  notified,
  \* history: what the last method call handed back to its caller
  returned,
  \* history: the wall-clock time played, kept as long as neither a seek nor
  \* a change of speed was made since the construction or the last reset
  play,
  \* the fields of a SimulationEngine instance; processedEvents is the Map
  \* as a sequence of index sets, one per trip, and <<>> once cleared;
  \* intervalId is 0 for null
  trips, engineSpeedMultiplier, isRunning, simulationTime, processedEvents,
  intervalId, lastUpdateTime,
  \* the callbacks start() has stored: eventCallbacks is <<c>> when the
  \* last start() past the guard was passed the callbacks of caller c, and
  \* <<>> when it was passed none; completionCallbacks holds the completion
  \* callback of the same call
  eventCallbacks,
  \* history: the wall-clock time the engine has played since the
  \* construction, the last stop(), completion or reset(), kept as long as
  \* the speed was not changed
  run,
  \* history: once, the places <<trip, index>> of the events the engine has
  \* passed to its event callback since the last start() of an engine that
  \* was not started; twice, those of them it has passed more than once;
  \* thrown, whether a call of a method has ended with an exception
  engineLog,
  \* two further MockEventStreamAPI instances over the same tripsData, each
  \* a record of its fields and of its history (delivered: the events handed
  \* to its event listeners since the construction or the last accepted
  \* seek; tickedAt: the instant of its last run of _streamEvents past the
  \* guard, -1 for none; done: whether it has signalled completion)
  twins,
  \* the events of one trip, as they are handed to the metrics functions,
  \* and what calculateTripMetrics (dataLoader.js) and
  \* calculateTripMetricsFromEvents (store.js) have returned for them last
  tripEvents, tripMetrics, storeMetrics,
  \* a MockAPIServer: its tripsData and what its getEvents or getTripEvents
  \* has returned last
  server,
  \* the state of the hooks useSimulation and useMockEventStream
  \* (src/src/hooks/useFleetData.js) of one mounted component, with the
  \* isPlaying and speed it was rendered with last
  hook

stream == <<tripsData, allEvents, minTimestamp, maxTimestamp, totalDuration,
            speedMultiplier, isStreaming, currentTime, startTime,
            lastTimestamp, streamFrameId>>

index == <<tripsData, allEvents, minTimestamp, maxTimestamp, totalDuration>>

simulation == <<trips, engineSpeedMultiplier, isRunning, simulationTime,
                processedEvents, intervalId, lastUpdateTime, eventCallbacks,
                run, engineLog>>

dashboard == <<tripEvents, tripMetrics, storeMetrics>>

frontend == <<server, hook>>

vars == <<tripsData, allEvents, minTimestamp, maxTimestamp, totalDuration,
          speedMultiplier, isStreaming, currentTime, startTime,
          lastTimestamp, streamFrameId, now, pendingFrames, delivered,
          ticked, completions, completeSnap, seekTarget, notified, returned,
          play, trips, engineSpeedMultiplier, isRunning, simulationTime,
          processedEvents, intervalId, lastUpdateTime, eventCallbacks, run,
          engineLog,
          twins, tripEvents, tripMetrics, storeMetrics, server, hook>>

\* played: the wall-clock time between a start or tick and the next tick,
\* summed; mark: the instant of the last start or tick while streaming;
\* phase: 1 once a tick has computed a positive elapsed time, 2 once the
\* wall clock has then advanced while the engine was not streaming, 3 once
\* a tick has then moved the elapsed time further
FreshPlay == [steady |-> TRUE, played |-> 0, mark |-> 0, phase |-> 0]

Unsteady == [steady |-> FALSE, played |-> 0, mark |-> 0, phase |-> 0]

\* played: the wall-clock time between a start or update and the next
\* update, summed; mark: the instant of the last start or update
FreshRun == [steady |-> TRUE, played |-> 0, mark |-> 0]

UnsteadyRun == [steady |-> FALSE, played |-> 0, mark |-> 0]

\* Math.round(x) for a finite x
MathRound(x) == Num((2 * x.n + x.d) \div (2 * x.d))

\* an event of a trip as the metrics functions read it: its event_type,
\* its planned_distance_km, its distance_travelled_km (0 for a property
\* the event does not have) and its movement.moving ("true", "false", or
\* "undefined" for an event without that property)
TripEvent(type, planned, travelled, moving) ==
  [event_type |-> type,
   planned_distance_km |-> planned,
   distance_travelled_km |-> travelled,
   moving |-> moving]

\* the events handed to the metrics functions
TripEventSet ==
  {TripEvent("trip_started", planned, 0, Undefined) : planned \in 0..2}
    \cup {TripEvent("location_ping", 0, travelled, moving) :
            travelled \in 0..3, moving \in {"true", "false", Undefined}}
    \cup {TripEvent(type, 0, 0, Undefined) :
            type \in {"trip_completed", "trip_cancelled", "vehicle_stopped"}}

TripEventSeqs == UNION {[1..n -> TripEventSet] : n \in 0..MaxTripEvents}

\* events.find(e => e.event_type is one of types): the place of the first
\* such event from place i on, 0 for undefined
RECURSIVE FindFrom(_, _, _)
FindFrom(evs, types, i) ==
  IF i > Len(evs) THEN 0
  ELSE IF evs[i].event_type \in types THEN i
  ELSE FindFrom(evs, types, i + 1)

Find(evs, types) == FindFrom(evs, types, 1)

\* events.filter(e => e.event_type === type)
OfType(evs, type) == SelectSeq(evs, LAMBDA e : e.event_type = type)

\* the stops calculateTripMetrics has counted when its forEach over the
\* location events reaches place i with the count stops and lastMoving
RECURSIVE CountStops(_, _, _, _)
CountStops(locationEvents, i, stops, lastMoving) ==
  IF i > Len(locationEvents) THEN stops
  ELSE CountStops(locationEvents, i + 1,
                  IF locationEvents[i].moving # "true" /\ lastMoving
                  THEN stops + 1 ELSE stops,
                  locationEvents[i].moving # "false")

\* the values Math.random() is taken to return
Randoms == {Num(0), RDiv(Num(1), Num(2))}

\* Math.floor(x) for a finite x
MathFloor(x) == Num(x.n \div x.d)

\* what a metrics function has returned before it was called
NoMetrics ==
  [status |-> "none", completionPercentage |-> NaN, stops |-> -1,
   plannedDistance |-> NaN]

\* calculateTripMetrics(events) of dataLoader.js: the status, the
\* completionPercentage, the stops and the plannedDistance of the object
\* it returns
TripMetrics(evs) ==
  IF evs = <<>>
  THEN [status |-> "idle", completionPercentage |-> Num(0), stops |-> 0,
        plannedDistance |-> Num(0)]
  ELSE LET startEvent      == Find(evs, {"trip_started"})
           locationEvents  == OfType(evs, "location_ping")
           endEvent        == Find(evs, {"trip_completed", "trip_cancelled"})
           plannedDistance == IF startEvent = 0 THEN 0
                              ELSE evs[startEvent].planned_distance_km
           currentDistance == IF locationEvents = <<>> THEN 0
                              ELSE locationEvents[Len(locationEvents)].distance_travelled_km
       IN  [status |->
              IF endEvent # 0 /\ evs[endEvent].event_type = "trip_completed"
              THEN "completed"
              ELSE IF endEvent # 0 /\ evs[endEvent].event_type = "trip_cancelled"
              THEN "cancelled"
              ELSE IF locationEvents = <<>> THEN "idle"
              ELSE "in_progress",
            completionPercentage |->
              IF plannedDistance > 0
              THEN MathRound(RMul(RDiv(Num(currentDistance), Num(plannedDistance)),
                                  Num(100)))
              ELSE Num(0),
            stops |-> CountStops(locationEvents, 1, 0, TRUE),
            plannedDistance |-> Num(plannedDistance)]

\* calculateTripMetricsFromEvents(events) of store.js, with random the
\* value its call of Math.random() returns: the status, the
\* completionPercentage, the stops and the plannedDistance of the object
\* it returns (the object returned for no events has no plannedDistance,
\* which reads as a value that is no Number)
TripMetricsFromEvents(evs, random) ==
  IF evs = <<>>
  THEN [status |-> "idle", completionPercentage |-> Num(0), stops |-> 0,
        plannedDistance |-> Null]
  ELSE LET startEvent     == Find(evs, {"trip_started"})
           endEvent       == Find(evs, {"trip_completed"})
           cancelledEvent == Find(evs, {"trip_cancelled"})
           locations      == OfType(evs, "location_ping")
           stopEvents     == OfType(evs, "vehicle_stopped")
           status         == IF cancelledEvent # 0 THEN "cancelled"
                             ELSE IF endEvent # 0 THEN "completed"
                             ELSE IF startEvent # 0 THEN "active"
                             ELSE "idle"
           completionPercentage ==
             IF cancelledEvent # 0 THEN Num(0)
             ELSE IF endEvent # 0 THEN Num(100)
             ELSE IF startEvent # 0
             THEN RMin(Num(100),
                       MathRound(RMul(RDiv(Num(Len(locations)),
                                           RMax(Num(1), Num(Len(evs)))),
                                      Num(100))))
             ELSE Num(0)
       IN  [status |-> status,
            completionPercentage |-> completionPercentage,
            stops |-> Len(stopEvents),
            plannedDistance |->
              RAdd(Num(500), MathFloor(RMul(random, Num(1000))))]

\* no trip has been handed to the metrics functions
MetricsUnloaded ==
  /\ tripEvents = <<>>
  /\ tripMetrics = NoMetrics
  /\ storeMetrics = NoMetrics

\* what a MockAPIServer has returned before any call
NoResponse == [tripId |-> Undefined, events |-> <<>>, total |-> -1]

\* new MockAPIServer(data)
ConstructServer(data) == server = [tripsData |-> data, response |-> NoResponse]

\* the hooks as their first render leaves them, paused at speed 1
\* (useState(null), useRef(null) and useRef(speed) of useSimulation,
\* useState([]) and useRef(null) of useMockEventStream)
\* animationFrameRef tells whether a frame of animate is requested; resume
\* shown and animatedAt are history.  animatedAt is the instant of the last
\* frame; shown tells what was called since besides play and pause: nothing
\* ("frame"), speed changes only ("speed"), or a seek or a reset ("no").
\* resume.time is the simulated time at which playback was paused, kept
\* when the pause came right after the frame that shows it and until a
\* frame, a seek, a reset or a speed change follows; resume.at is the instant at which
\* that playback was resumed, -1 while it is paused
NoResume == [time |-> Null, at |-> -1]

MountedHook ==
  [isPlaying |-> FALSE, speed |-> Num(1),
   currentTime |-> Null, startTimeRef |-> Null, timeMultiplierRef |-> Num(1),
   animationFrameRef |-> FALSE, resume |-> NoResume, animatedAt |-> -1,
   shown |-> "no", apiRef |-> Null, streamEvents |-> <<>>]

\* no server has been asked and no hook has been played
FrontendUnmounted ==
  /\ ConstructServer(<<>>)
  /\ hook = MountedHook

\* the fields new MockEventStreamAPI(data, speed) sets besides the index
ConstructInstance(speed) ==
  [speedMultiplier |-> speed,
   isStreaming     |-> FALSE,
   currentTime     |-> Num(0),
   startTime       |-> Num(now),
   lastTimestamp   |-> Num(0),
   delivered       |-> <<>>,
   tickedAt        |-> -1,
   done            |-> FALSE]

\* new MockEventStreamAPI(data, speed), with sorted the order in which the
\* sort of line 57 leaves allEvents
ConstructSorted(data, speed, sorted) ==
  /\ tripsData = data
  /\ speedMultiplier = speed
  /\ isStreaming = FALSE
  /\ currentTime = Num(0)
  /\ startTime = Num(now)
  /\ lastTimestamp = Num(0)
  /\ streamFrameId = 0
  /\ allEvents = sorted
  /\ minTimestamp = IndexEvents(data).minTimestamp
  /\ maxTimestamp = IndexEvents(data).maxTimestamp
  /\ totalDuration = IndexEvents(data).totalDuration
  /\ pendingFrames = {}
  /\ delivered = <<>>
  /\ ticked = FALSE
  /\ completions = 0
  /\ completeSnap = NoSnap
  /\ seekTarget = NoSeek
  /\ notified = FALSE
  /\ returned = Undefined
  /\ play = FreshPlay

\* new MockEventStreamAPI(data, speed) on events with parsable timestamps
ConstructAPI(data, speed) ==
  ConstructSorted(data, speed, IndexEvents(data).allEvents)

\* new MockEventStreamAPI(tripsData, speed), twice
ConstructTwins(speed) ==
  twins = <<ConstructInstance(speed), ConstructInstance(speed)>>

\* nothing was passed to the event callback and no call has thrown
NoLog == [once |-> {}, twice |-> {}, thrown |-> FALSE]

\* new SimulationEngine(ts, speed)
ConstructEngine(ts, speed) ==
  /\ trips = ts
  /\ engineSpeedMultiplier = speed
  /\ isRunning = FALSE
  /\ simulationTime = Null
  /\ processedEvents = <<>>
  /\ intervalId = 0
  /\ lastUpdateTime = now
  /\ eventCallbacks = <<>>
  /\ run = FreshRun
  /\ engineLog = NoLog

\* the constructors, run at wall-clock instant 0
Init ==
  /\ now = 0
  /\ MetricsUnloaded
  /\ FrontendUnmounted
  /\ \E data \in TripsDataSets, speed \in Speeds : ConstructAPI(data, speed)
  /\ ConstructEngine(<<>>, Num(1))
  /\ ConstructTwins(Num(1))

(***************************************************************************)
(* _getEventsUpToTime, the emit loop and getProgress.                      *)
(***************************************************************************)
\* a filter that keeps the events strictly before targetTime
RECURSIVE FilterBefore(_, _)
FilterBefore(events, targetTime) ==
  IF events = <<>> THEN <<>>
  ELSE IF RLt(GetTime(Head(events)), targetTime)
       THEN <<Head(events)>> \o FilterBefore(Tail(events), targetTime)
       ELSE FilterBefore(Tail(events), targetTime)

\* this.allEvents.filter(event => eventTime <= targetTime)
RECURSIVE FilterUpTo(_, _)
FilterUpTo(events, targetTime) ==
  IF events = <<>> THEN <<>>
  ELSE IF RLe(GetTime(Head(events)), targetTime)
       THEN <<Head(events)>> \o FilterUpTo(Tail(events), targetTime)
       ELSE FilterUpTo(Tail(events), targetTime)

GetEventsUpToTime(relativeTime) ==
  FilterUpTo(allEvents, RAdd(minTimestamp, relativeTime))

\* a loop that emits again an event at the last emitted instant
IsNewEventOrSame(eventTime, last) == RGe(eventTime, last)

\* whether the loop of _streamEvents emits an event at eventTime when the
\* last emitted instant is last
IsNewEvent(eventTime, last) == RGt(eventTime, last)

\* eventsUpToNow.forEach: the events emitted and the lastTimestamp left
RECURSIVE EmitNew(_, _)
EmitNew(events, last) ==
  IF events = <<>> THEN [last |-> last, out |-> <<>>]
  ELSE LET eventTime == GetTime(Head(events))
       IN  IF IsNewEvent(eventTime, last)
           THEN LET rest == EmitNew(Tail(events), eventTime)
                IN  [last |-> rest.last, out |-> <<Head(events)>> \o rest.out]
           ELSE EmitNew(Tail(events), last)

\* an end-of-stream test that asks for an event later than maxTimestamp
ReachedEndStrict(eventsUpToNow) ==
  /\ Len(eventsUpToNow) > 0
  /\ RGt(GetTime(eventsUpToNow[Len(eventsUpToNow)]), maxTimestamp)

\* the end-of-stream test of _streamEvents
ReachedEnd(eventsUpToNow) ==
  /\ Len(eventsUpToNow) > 0
  /\ RGe(GetTime(eventsUpToNow[Len(eventsUpToNow)]), maxTimestamp)

GetProgress ==
  IF totalDuration = Num(0) THEN Num(0)
  ELSE RMin(RDiv(currentTime, totalDuration), Num(1))

\* an anchor that forgets the simulated time already elapsed
AnchorAtNow(elapsed, speed) == Num(now)

\* Date.now() - (this.currentTime / this.speedMultiplier)
Anchor(elapsed, speed) == RSub(Num(now), RDiv(elapsed, speed))

\* requestAnimationFrame: a handle that names no callback still known
NewFrameId(pending) ==
  CHOOSE id \in 1..(Cardinality(pending) + 2) :
    id \notin pending /\ id # streamFrameId

\* whether event e is among the events of sequence s
Among(e, s) == \E k \in 1..Len(s) : s[k] = e

\* whether every indexed event is among the events of sequence s
AllAmong(s) == \A k \in 1..Len(allEvents) : Among(allEvents[k], s)

(***************************************************************************)
(* The operations.                                                         *)
(***************************************************************************)
Saturate(n) == IF n < MaxCount THEN n + 1 ELSE MaxCount

\* the body of _streamEvents after its guard, with this.startTime = st, the
\* pending callbacks pend and the play history pl; elapsed, eventsUpToNow
\* and the outcome of the emit loop are the locals of the method, each
\* computed once
StreamEvents(st, pend, pl) ==
  \E elapsed \in {RMul(RSub(Num(now), st), speedMultiplier)} :
  \E eventsUpToNow \in {GetEventsUpToTime(elapsed)} :
  \E emitted \in {EmitNew(eventsUpToNow, lastTimestamp)} :
  LET atEnd         == ReachedEnd(eventsUpToNow)
      \* stopStream(), called before _emitComplete()
      stopped       == IF streamFrameId # 0 THEN pend \ {streamFrameId} ELSE pend
      frame         == NewFrameId(pend)
  IN  /\ currentTime' = elapsed
      /\ lastTimestamp' = emitted.last
      /\ delivered' = delivered \o emitted.out
      /\ ticked' = TRUE
      /\ seekTarget' = NoSeek
      /\ play' = IF pl.steady
                 THEN [pl EXCEPT
                         !.played = @ + (now - pl.mark),
                         !.mark = now,
                         !.phase = IF @ = 0 /\ RGt(elapsed, Num(0)) THEN 1
                                   ELSE IF @ = 2 /\ RGt(elapsed, currentTime) THEN 3
                                   ELSE @]
                 ELSE pl
      /\ IF atEnd
         THEN /\ isStreaming' = FALSE
              /\ streamFrameId' = 0
              /\ pendingFrames' = stopped
              /\ completions' = Saturate(completions)
              /\ completeSnap' = [taken         |-> TRUE,
                                  allDelivered  |-> AllAmong(delivered \o emitted.out),
                                  isStreaming   |-> FALSE,
                                  streamFrameId |-> 0,
                                  pending       |-> stopped]
         ELSE /\ isStreaming' = TRUE
              /\ streamFrameId' = frame
              /\ pendingFrames' = pend \cup {frame}
              /\ UNCHANGED <<completions, completeSnap>>
      /\ notified' = atEnd
      /\ returned' = Undefined

\* a wall-clock reference that restarts the playback at the current instant
StartAnchorAtNow == Num(now)

\* the wall-clock reference startStream() sets
StartAnchor == Anchor(currentTime, speedMultiplier)

\* a startStream() without the test of line 79
startStreamUnguarded ==
  /\ \E anchor \in {StartAnchor} :
       /\ startTime' = anchor
       /\ StreamEvents(anchor, pendingFrames,
                       IF play.steady THEN [play EXCEPT !.mark = now] ELSE play)
       /\ UNCHANGED <<index, speedMultiplier, now>>
  /\ UNCHANGED <<simulation, twins, dashboard, frontend>>

startStream ==
  /\ IF isStreaming
     THEN /\ notified' = FALSE
          /\ returned' = Undefined
          /\ UNCHANGED <<stream, now, pendingFrames, delivered, ticked,
                         completions, completeSnap, seekTarget, play>>
     ELSE \E anchor \in {StartAnchor} :
            /\ startTime' = anchor
            /\ StreamEvents(anchor, pendingFrames,
                            IF play.steady THEN [play EXCEPT !.mark = now] ELSE play)
            /\ UNCHANGED <<index, speedMultiplier, now>>
  /\ UNCHANGED <<simulation, twins, dashboard, frontend>>

stopStream ==
  /\ isStreaming' = FALSE
  /\ IF streamFrameId # 0
     THEN /\ pendingFrames' = pendingFrames \ {streamFrameId}
          /\ streamFrameId' = 0
     ELSE UNCHANGED <<pendingFrames, streamFrameId>>
  /\ play' = IF play.steady THEN [play EXCEPT !.mark = 0] ELSE play
  /\ notified' = FALSE
  /\ returned' = Undefined
  /\ UNCHANGED <<index, speedMultiplier, currentTime, startTime, lastTimestamp,
                 now, delivered, ticked, completions, completeSnap, seekTarget>>
  /\ UNCHANGED <<simulation, twins, dashboard, frontend>>

\* an animation-frame callback runs: () => this._streamEvents()
Tick ==
  /\ \E id \in pendingFrames :
       IF ~isStreaming
       THEN /\ pendingFrames' = pendingFrames \ {id}
            /\ notified' = FALSE
            /\ UNCHANGED <<stream, now, delivered, ticked, completions,
                           completeSnap, seekTarget, returned, play>>
       ELSE /\ StreamEvents(startTime, pendingFrames \ {id}, play)
            /\ UNCHANGED <<index, speedMultiplier, startTime, now>>
  /\ UNCHANGED <<simulation, twins, dashboard, frontend>>

setSpeedMultiplier(multiplier) ==
  /\ speedMultiplier' = multiplier
  /\ startTime' = IF isStreaming THEN Anchor(currentTime, multiplier) ELSE startTime
  /\ play' = IF play.steady /\ ~isStreaming /\ multiplier = speedMultiplier
             THEN play ELSE Unsteady
  /\ notified' = FALSE
  /\ returned' = Undefined
  /\ UNCHANGED <<index, isStreaming, currentTime, lastTimestamp, streamFrameId,
                 now, pendingFrames, delivered, ticked, completions,
                 completeSnap, seekTarget>>
  /\ UNCHANGED <<simulation, twins, dashboard, frontend>>

\* a position measured on the absolute time line instead of the duration
SeekPositionAbsolute(progress) == RMul(maxTimestamp, progress)

\* the position seekToProgress(progress) stores in currentTime
SeekPosition(progress) == RMul(totalDuration, progress)

seekToProgress(progress) ==
  /\ IF RLt(progress, Num(0)) \/ RGt(progress, Num(1))
     THEN /\ notified' = FALSE
          /\ returned' = Undefined
          /\ UNCHANGED <<stream, now, pendingFrames, delivered, ticked,
                         completions, completeSnap, seekTarget, play>>
     ELSE /\ IF \/ ~IsFinite(totalDuration)
                \/ RLe(totalDuration, Num(0))
                \/ ~IsFinite(minTimestamp)
             THEN /\ currentTime' = Num(0)
                  /\ lastTimestamp' = Num(0)
                  /\ UNCHANGED startTime
             ELSE /\ currentTime' = SeekPosition(progress)
                  /\ lastTimestamp' = Num(0)
                  /\ startTime' = IF isStreaming
                                  THEN Anchor(SeekPosition(progress), speedMultiplier)
                                  ELSE startTime
          /\ delivered' = <<>>
          /\ ticked' = FALSE
          /\ completions' = 0
          /\ completeSnap' = NoSnap
          /\ seekTarget' = progress
          /\ play' = Unsteady
          /\ notified' = FALSE
          /\ returned' = Undefined
          /\ UNCHANGED <<index, speedMultiplier, isStreaming, streamFrameId, now,
                         pendingFrames>>
  /\ UNCHANGED <<simulation, twins, dashboard, frontend>>

reset ==
  /\ isStreaming' = FALSE
  /\ IF streamFrameId # 0
     THEN /\ pendingFrames' = pendingFrames \ {streamFrameId}
          /\ streamFrameId' = 0
     ELSE UNCHANGED <<pendingFrames, streamFrameId>>
  /\ currentTime' = Num(0)
  /\ lastTimestamp' = Num(0)
  /\ startTime' = Num(now)
  /\ delivered' = <<>>
  /\ ticked' = FALSE
  /\ completions' = 0
  /\ completeSnap' = NoSnap
  /\ seekTarget' = NoSeek
  /\ play' = FreshPlay
  /\ notified' = FALSE
  /\ returned' = Undefined
  /\ UNCHANGED <<index, speedMultiplier, now>>
  /\ UNCHANGED <<simulation, twins, dashboard, frontend>>

\* the wall clock advances by one millisecond, up to limit
AdvanceClockTo(limit) ==
  /\ now < limit
  /\ now' = now + 1
  /\ play' = IF play.steady /\ ~isStreaming /\ play.phase = 1
             THEN [play EXCEPT !.phase = 2] ELSE play
  /\ notified' = FALSE
  /\ UNCHANGED <<stream, pendingFrames, delivered, ticked, completions,
                 completeSnap, seekTarget, returned>>
  /\ UNCHANGED <<simulation, twins, dashboard, frontend>>

AdvanceClock == AdvanceClockTo(MaxNow)

Next ==
  \/ startStream
  \/ stopStream
  \/ Tick
  \/ \E multiplier \in Speeds : setSpeedMultiplier(multiplier)
  \/ \E progress \in Progresses : seekToProgress(progress)
  \/ reset
  \/ AdvanceClock

Spec == Init /\ [][Next]_vars

(***************************************************************************)
(* Playback left alone: the engine is started and ticks, nobody pauses,    *)
(* seeks, resets or changes the speed.  The browser runs every             *)
(* animation-frame callback that stays requested, and the wall clock does  *)
(* not stop.  A paused engine is started by MaxNow at the latest;          *)
(* LiveHorizon leaves a running stream the wall-clock time the longest     *)
(* timeline (MaxTs - 1) needs at the slowest speed (1/2).                  *)
(***************************************************************************)
LiveHorizon == MaxNow + 2 * (MaxTs - 1)

AdvanceClockLive == AdvanceClockTo(IF isStreaming THEN LiveHorizon ELSE MaxNow)

NextLive ==
  \/ startStream
  \/ Tick
  \/ AdvanceClockLive

LiveSpec ==
  Init /\ [][NextLive]_vars /\ WF_vars(Tick) /\ WF_vars(AdvanceClockLive)

(***************************************************************************)
(* SimulationEngine.  Its callers pass start() an event callback and a     *)
(* completion callback that return normally and do not call back into the  *)
(* engine.                                                                 *)
(***************************************************************************)
GetEarliestTimestamp ==
  LET earliest == EarliestOver(trips, PosInfinity)
  IN  IF earliest = PosInfinity THEN Num(now) ELSE earliest

GetLatestTimestamp == LatestOver(trips, Num(0))

\* the Number an operand of + is converted to
ToNumber(x) == IF x = Null THEN Num(0) ELSE x

\* !x, for x null or a Number
Not(x) == x = Null \/ x = Num(0) \/ IsNaN(x)

\* getProgress() of SimulationEngine when this.simulationTime is t
EngineProgressAt(t) ==
  IF Not(t) \/ GetLatestTimestamp = GetEarliestTimestamp
  THEN Num(0)
  ELSE RMax(Num(0),
            RMin(Num(1),
                 RDiv(RSub(t, GetEarliestTimestamp),
                      RSub(GetLatestTimestamp, GetEarliestTimestamp))))

EngineGetProgress == EngineProgressAt(simulationTime)

\* the simulationTime and the processedEvents initialize() leaves
InitializedTime == GetEarliestTimestamp

InitializedSets == [i \in 1..Len(trips) |-> {}]

\* processEventsAtCurrentTime: the indices processed once it has run at
\* the simulated time t
ProcessedAt(t) ==
  [i \in 1..Len(trips) |->
     processedEvents[i] \cup
       {j \in 1..Len(trips[i].events) : RLe(GetTime(trips[i].events[j]), t)}]

\* the places <<trip, index>> of the events of the trips
Places == {sl \in (1..Len(trips)) \X (1..MaxEvents) : sl[2] <= Len(trips[sl[1]].events)}

\* the places that are in the sets processed and not in processedEvents:
\* those whose events a run of processEventsAtCurrentTime that leaves
\* processed has passed to the event callback
Added(processed) ==
  {sl \in Places : sl[2] \in processed[sl[1]] /\ sl[2] \notin processedEvents[sl[1]]}

\* the places whose events processAllRemainingEvents passes to the event
\* callback
Remaining == {sl \in Places : sl[2] \notin processedEvents[sl[1]]}

\* engineLog once the events at the places new were passed
Passing(new) ==
  [engineLog EXCEPT !.once = @ \cup new,
                    !.twice = @ \cup (new \cap engineLog.once)]

\* the callers of start(), each with an event callback and a completion
\* callback of its own
Callers == {1, 2}

\* start(onEventCallback, onCompleteCallback), with passed the list
\* [onEventCallback].filter(Boolean)
startWith(passed) ==
  /\ IF isRunning
     THEN UNCHANGED simulation
     ELSE /\ IF Not(simulationTime)
             THEN /\ simulationTime' = InitializedTime
                  /\ processedEvents' = InitializedSets
             ELSE UNCHANGED <<simulationTime, processedEvents>>
          /\ isRunning' = TRUE
          /\ eventCallbacks' = passed
          /\ lastUpdateTime' = now
          /\ intervalId' = 1
          /\ run' = IF run.steady THEN [run EXCEPT !.mark = now] ELSE run
          /\ engineLog' = IF simulationTime = Null
                          THEN [NoLog EXCEPT !.thrown = engineLog.thrown]
                          ELSE engineLog
          /\ UNCHANGED <<trips, engineSpeedMultiplier>>
  /\ UNCHANGED <<stream, now, pendingFrames, delivered, ticked, completions,
                 completeSnap, seekTarget, notified, returned, play, twins,
                 dashboard, frontend>>

\* start() called with the callbacks of one of the callers
start == \E c \in Callers : startWith(<<c>>)

\* resume() calls start() with the callbacks start() stored, undefined
\* when there are none
resume == startWith(eventCallbacks)

\* the interval timer set by start() fires: () => this.update()
update ==
  /\ intervalId # 0
  /\ \E t \in {RAdd(ToNumber(simulationTime),
                    RMul(Num(now - lastUpdateTime), engineSpeedMultiplier))} :
       IF processedEvents = <<>> /\ Places # {}
       THEN \* the Map has no set for the trip: processedSet.has (line 126
            \* or 154) throws a TypeError out of the timer callback
            /\ simulationTime' = IF RGe(t, GetLatestTimestamp)
                                 THEN GetLatestTimestamp ELSE t
            /\ run' = UnsteadyRun
            /\ engineLog' = [engineLog EXCEPT !.thrown = TRUE]
            /\ UNCHANGED <<isRunning, intervalId, processedEvents>>
       ELSE IF RGe(t, GetLatestTimestamp)
       THEN \* processAllRemainingEvents(), stop(), the completion callbacks
            /\ isRunning' = FALSE
            /\ intervalId' = 0
            /\ simulationTime' = Null
            /\ processedEvents' = <<>>
            /\ run' = FreshRun
            /\ engineLog' = Passing(Remaining)
       ELSE /\ simulationTime' = t
            /\ processedEvents' = ProcessedAt(t)
            /\ engineLog' = Passing(Added(ProcessedAt(t)))
            /\ run' = IF run.steady
                      THEN [run EXCEPT !.played = @ + (now - run.mark),
                                       !.mark = now]
                      ELSE run
            /\ UNCHANGED <<isRunning, intervalId>>
  /\ lastUpdateTime' = now
  /\ UNCHANGED <<trips, engineSpeedMultiplier, eventCallbacks>>
  /\ UNCHANGED <<stream, now, pendingFrames, delivered, ticked, completions,
                 completeSnap, seekTarget, notified, returned, play, twins,
                 dashboard, frontend>>

pause ==
  /\ IF isRunning
     THEN /\ isRunning' = FALSE
          /\ intervalId' = 0
     ELSE UNCHANGED <<isRunning, intervalId>>
  /\ UNCHANGED <<trips, engineSpeedMultiplier, simulationTime, processedEvents,
                 lastUpdateTime, eventCallbacks, run, engineLog>>
  /\ UNCHANGED <<stream, now, pendingFrames, delivered, ticked, completions,
                 completeSnap, seekTarget, notified, returned, play, twins,
                 dashboard, frontend>>

stop ==
  /\ IF isRunning
     THEN /\ isRunning' = FALSE
          /\ intervalId' = 0
     ELSE UNCHANGED <<isRunning, intervalId>>
  /\ simulationTime' = Null
  /\ processedEvents' = <<>>
  /\ run' = FreshRun
  /\ UNCHANGED <<trips, engineSpeedMultiplier, lastUpdateTime, eventCallbacks,
                 engineLog>>
  /\ UNCHANGED <<stream, now, pendingFrames, delivered, ticked, completions,
                 completeSnap, seekTarget, notified, returned, play, twins,
                 dashboard, frontend>>

\* SimulationEngine.reset(): initialize()
engineReset ==
  /\ simulationTime' = InitializedTime
  /\ processedEvents' = InitializedSets
  /\ run' = IF isRunning THEN UnsteadyRun ELSE FreshRun
  /\ UNCHANGED <<trips, engineSpeedMultiplier, isRunning, intervalId,
                 lastUpdateTime, eventCallbacks, engineLog>>
  /\ UNCHANGED <<stream, now, pendingFrames, delivered, ticked, completions,
                 completeSnap, seekTarget, notified, returned, play, twins,
                 dashboard, frontend>>

\* SimulationEngine.setSpeedMultiplier(multiplier)
engineSetSpeedMultiplier(multiplier) ==
  /\ engineSpeedMultiplier' = RMax(Norm(1, 10), multiplier)
  /\ run' = IF run.steady /\ RMax(Norm(1, 10), multiplier) = engineSpeedMultiplier
            THEN run ELSE UnsteadyRun
  /\ UNCHANGED <<trips, isRunning, simulationTime, processedEvents, intervalId,
                 lastUpdateTime, eventCallbacks, engineLog>>
  /\ UNCHANGED <<stream, now, pendingFrames, delivered, ticked, completions,
                 completeSnap, seekTarget, notified, returned, play, twins,
                 dashboard, frontend>>

EngineInit ==
  /\ now = 0
  /\ MetricsUnloaded
  /\ FrontendUnmounted
  /\ ConstructAPI(<<>>, Num(1))
  /\ \E ts \in EngineTripsSets, speed \in Speeds : ConstructEngine(ts, speed)
  /\ ConstructTwins(Num(1))

EngineNext ==
  \/ start
  \/ update
  \/ pause
  \/ resume
  \/ stop
  \/ engineReset
  \/ \E multiplier \in Speeds : engineSetSpeedMultiplier(multiplier)
  \/ AdvanceClock

EngineSpec == EngineInit /\ [][EngineNext]_vars

(***************************************************************************)
(* Every operation of SimulationEngine, in any order: OperationsSpec calls *)
(* seekToTime, getProgress and getStatistics besides the steps of          *)
(* EngineSpec, so that each is called before the first start(), after      *)
(* stop() and after the completion as well as during a run.  The engine    *)
(* plays at speed 1.                                                       *)
(***************************************************************************)
\* the instants passed to seekToTime: inside and past the timeline
SeekTimes == (1 - MaxTs)..MaxTs

\* seekToTime(timestamp)
seekToTime(timestamp) ==
  /\ \E t \in {RMax(GetEarliestTimestamp,
                     RMin(Num(timestamp), GetLatestTimestamp))} :
       /\ simulationTime' = t
       /\ IF processedEvents = <<>>
          THEN \* the Map has no set for any trip: processedSet.delete
               \* (line 225) throws a TypeError at the first event after t
               /\ engineLog' =
                    [engineLog EXCEPT
                       !.thrown = @ \/ \E sl \in Places :
                                        RGt(GetTime(trips[sl[1]].events[sl[2]]), t)]
               /\ UNCHANGED processedEvents
          ELSE /\ processedEvents' =
                    [i \in 1..Len(trips) |->
                       {j \in processedEvents[i] :
                          ~RGt(GetTime(trips[i].events[j]), t)}]
               /\ UNCHANGED engineLog
  /\ run' = UnsteadyRun
  /\ UNCHANGED <<trips, engineSpeedMultiplier, isRunning, intervalId,
                 lastUpdateTime, eventCallbacks>>
  /\ UNCHANGED <<stream, now, pendingFrames, delivered, ticked, completions,
                 completeSnap, seekTarget, notified, returned, play, twins,
                 dashboard, frontend>>

\* getProgress(): it returns EngineGetProgress and assigns to no field
getProgress == UNCHANGED vars

\* the object getStatistics() returns: per trip, in the order of the
\* trips, totalEvents, processedEvents and progress
Statistics ==
  [totalTrips |-> Len(trips),
   trips |->
     [i \in 1..Len(trips) |->
        LET totalEvents    == Len(trips[i].events)
            processedCount == IF processedEvents = <<>> THEN 0
                              ELSE Cardinality(processedEvents[i])
        IN  [totalEvents     |-> totalEvents,
             processedEvents |-> processedCount,
             progress        |-> IF totalEvents > 0
                                 THEN RDiv(Num(processedCount), Num(totalEvents))
                                 ELSE Num(0)]]]

\* getStatistics(): it returns Statistics and assigns to no field
getStatistics == UNCHANGED vars

OperationsInit ==
  /\ now = 0
  /\ MetricsUnloaded
  /\ FrontendUnmounted
  /\ ConstructAPI(<<>>, Num(1))
  /\ \E ts \in EngineTripsSets : ConstructEngine(ts, Num(1))
  /\ ConstructTwins(Num(1))

OperationsNext ==
  \/ start
  \/ update
  \/ pause
  \/ resume
  \/ stop
  \/ engineReset
  \/ \E timestamp \in SeekTimes : seekToTime(timestamp)
  \/ getProgress
  \/ getStatistics

  \/ AdvanceClock

OperationsSpec == OperationsInit /\ [][OperationsNext]_vars

(***************************************************************************)
(* Callers that pass setSpeedMultiplier any Number: SpeedSpec runs both    *)
(* objects, the MockEventStreamAPI playing and the SimulationEngine idle,  *)
(* and changes the speed of either to a value of Multipliers.              *)
(***************************************************************************)
\* the values passed to setSpeedMultiplier: positive, zero and negative
Multipliers == Speeds \cup {Num(0), Num(-1)}

SpeedNext ==
  \/ startStream
  \/ stopStream
  \/ Tick
  \/ \E multiplier \in Multipliers : setSpeedMultiplier(multiplier)
  \/ \E multiplier \in Multipliers : engineSetSpeedMultiplier(multiplier)
  \/ AdvanceClock

SpeedSpec == Init /\ [][SpeedNext]_vars

(***************************************************************************)
(* Two instances given the same calls at the same instants.  TwinSpec      *)
(* constructs two MockEventStreamAPI instances over the same tripsData     *)
(* with the same speed and makes every startStream, stopStream,            *)
(* setSpeedMultiplier and seekToProgress call on both at once; the         *)
(* animation-frame callbacks of the two run independently of each other.   *)
(* An instance has a callback requested exactly while it is streaming:     *)
(* stopStream cancels the one requested, and a callback that finds         *)
(* isStreaming false does nothing.  The operators below are the methods    *)
(* as functions of the instance.                                           *)
(***************************************************************************)
\* _streamEvents past its guard
\* a run of _streamEvents that takes the wall-clock time for the position
StreamEventsUnscaled(inst) ==
  LET elapsed       == RSub(Num(now), inst.startTime)
      eventsUpToNow == GetEventsUpToTime(elapsed)
      emitted       == EmitNew(eventsUpToNow, inst.lastTimestamp)
      atEnd         == ReachedEnd(eventsUpToNow)
  IN  [inst EXCEPT !.currentTime   = elapsed,
                   !.lastTimestamp = emitted.last,
                   !.delivered     = @ \o emitted.out,
                   !.isStreaming   = ~atEnd,
                   !.tickedAt      = now,
                   !.done          = @ \/ atEnd]

StreamEventsOf(inst) ==
  LET elapsed       == RMul(RSub(Num(now), inst.startTime), inst.speedMultiplier)
      eventsUpToNow == GetEventsUpToTime(elapsed)
      emitted       == EmitNew(eventsUpToNow, inst.lastTimestamp)
      atEnd         == ReachedEnd(eventsUpToNow)
  IN  [inst EXCEPT !.currentTime   = elapsed,
                   !.lastTimestamp = emitted.last,
                   !.delivered     = @ \o emitted.out,
                   !.isStreaming   = ~atEnd,
                   !.tickedAt      = now,
                   !.done          = @ \/ atEnd]

StartStreamOf(inst) ==
  IF inst.isStreaming THEN inst
  ELSE StreamEventsOf([inst EXCEPT
                         !.isStreaming = TRUE,
                         !.startTime = Anchor(inst.currentTime, inst.speedMultiplier)])

StopStreamOf(inst) == [inst EXCEPT !.isStreaming = FALSE]

SetSpeedMultiplierOf(inst, multiplier) ==
  [inst EXCEPT !.speedMultiplier = multiplier,
               !.startTime = IF inst.isStreaming
                             THEN Anchor(inst.currentTime, multiplier)
                             ELSE @]

SeekToProgressOf(inst, progress) ==
  IF RLt(progress, Num(0)) \/ RGt(progress, Num(1)) THEN inst
  ELSE IF \/ ~IsFinite(totalDuration)
          \/ RLe(totalDuration, Num(0))
          \/ ~IsFinite(minTimestamp)
       THEN [inst EXCEPT !.currentTime = Num(0),
                         !.lastTimestamp = Num(0),
                         !.delivered = <<>>,
                         !.tickedAt = -1,
                         !.done = FALSE]
       ELSE [inst EXCEPT !.currentTime = SeekPosition(progress),
                         !.lastTimestamp = Num(0),
                         !.startTime = IF inst.isStreaming
                                       THEN Anchor(SeekPosition(progress),
                                                   inst.speedMultiplier)
                                       ELSE @,
                         !.delivered = <<>>,
                         !.tickedAt = -1,
                         !.done = FALSE]

\* what the steps of TwinSpec leave alone
untwinned == <<stream, pendingFrames, delivered, ticked, completions,
               completeSnap, seekTarget, notified, returned, play, simulation,
               dashboard, frontend>>

bothStartStream ==
  /\ twins' = <<StartStreamOf(twins[1]), StartStreamOf(twins[2])>>
  /\ UNCHANGED <<untwinned, now>>

bothStopStream ==
  /\ twins' = <<StopStreamOf(twins[1]), StopStreamOf(twins[2])>>
  /\ UNCHANGED <<untwinned, now>>

bothSetSpeedMultiplier(multiplier) ==
  /\ twins' = <<SetSpeedMultiplierOf(twins[1], multiplier),
               SetSpeedMultiplierOf(twins[2], multiplier)>>
  /\ UNCHANGED <<untwinned, now>>

bothSeekToProgress(progress) ==
  /\ twins' = <<SeekToProgressOf(twins[1], progress),
               SeekToProgressOf(twins[2], progress)>>
  /\ UNCHANGED <<untwinned, now>>

\* an animation-frame callback of instance i runs
TickOf(i) ==
  /\ twins[i].isStreaming
  /\ twins' = [twins EXCEPT ![i] = StreamEventsOf(twins[i])]
  /\ UNCHANGED <<untwinned, now>>

\* the positions the two instances are sought to
TwinProgresses == {Norm(1, 2)}

TwinInit ==
  /\ now = 0
  /\ MetricsUnloaded
  /\ FrontendUnmounted
  /\ \E data \in TripsDataSets : ConstructAPI(data, Num(1))
  /\ ConstructEngine(<<>>, Num(1))
  /\ \E speed \in Speeds : ConstructTwins(speed)

TwinNext ==
  \/ bothStartStream
  \/ bothStopStream
  \/ \E multiplier \in Speeds : bothSetSpeedMultiplier(multiplier)
  \/ \E progress \in TwinProgresses : bothSeekToProgress(progress)
  \/ \E i \in 1..2 : TickOf(i)
  \/ AdvanceClock

TwinSpec == TwinInit /\ [][TwinNext]_vars

(***************************************************************************)
(* Both replay strategies over one dataset.  ReplaySpec constructs a       *)
(* MockEventStreamAPI and a SimulationEngine from the same trips with the  *)
(* same speed and plays both forward: each is started, and its ticks run,  *)
(* with no pause, seek, reset or change of speed.                          *)
(***************************************************************************)
\* the trips of a tripsData mapping as the array SimulationEngine takes
TripsOf(data) ==
  [i \in 1..Len(data) |-> [id |-> TripOrder[i], events |-> data[i]]]

ReplayInit ==
  /\ now = 0
  /\ MetricsUnloaded
  /\ FrontendUnmounted
  /\ \E data \in TripsDataSets, speed \in Speeds :
       /\ ConstructAPI(data, speed)
       /\ ConstructEngine(TripsOf(data), speed)
  /\ ConstructTwins(Num(1))

ReplayNext ==
  \/ startStream
  \/ Tick
  \/ start
  \/ update
  \/ AdvanceClock

ReplaySpec == ReplayInit /\ [][ReplayNext]_vars

(***************************************************************************)
(* An event listener that calls back.  In ListenerSpec the event listener  *)
(* registered with onEvent may call stopStream() when it is handed an      *)
(* event: StreamEventsStopped is a run of _streamEvents in which the       *)
(* listener does so at the k-th event the run emits.  stopStream() then    *)
(* runs inside _emitEvent, inside the forEach of line 110: it clears       *)
(* isStreaming and cancels the callback of streamFrameId, and the forEach  *)
(* and the rest of _streamEvents go on.                                    *)
(***************************************************************************)
StreamEventsStopped(st, pend, pl, k) ==
  \E elapsed \in {RMul(RSub(Num(now), st), speedMultiplier)} :
  \E eventsUpToNow \in {GetEventsUpToTime(elapsed)} :
  \E emitted \in {EmitNew(eventsUpToNow, lastTimestamp)} :
  LET atEnd   == ReachedEnd(eventsUpToNow)
      \* the callbacks requested once the listener's stopStream() returns
      stopped == IF streamFrameId # 0 THEN pend \ {streamFrameId} ELSE pend
      frame   == NewFrameId(stopped)
  IN  /\ k <= Len(emitted.out)
      /\ currentTime' = elapsed
      /\ lastTimestamp' = emitted.last
      /\ delivered' = delivered \o emitted.out
      /\ ticked' = TRUE
      /\ seekTarget' = NoSeek
      /\ play' = IF pl.steady
                 THEN [pl EXCEPT
                         !.played = @ + (now - pl.mark),
                         !.mark = 0,
                         !.phase = IF @ = 0 /\ RGt(elapsed, Num(0)) THEN 1
                                   ELSE IF @ = 2 /\ RGt(elapsed, currentTime) THEN 3
                                   ELSE @]
                 ELSE pl
      /\ isStreaming' = FALSE
      /\ IF atEnd
         THEN \* stopStream() once more, then _emitComplete()
              /\ streamFrameId' = 0
              /\ pendingFrames' = stopped
              /\ completions' = Saturate(completions)
              /\ completeSnap' = [taken         |-> TRUE,
                                  allDelivered  |-> AllAmong(delivered \o emitted.out),
                                  isStreaming   |-> FALSE,
                                  streamFrameId |-> 0,
                                  pending       |-> stopped]
         ELSE \* line 128 requests the next callback all the same
              /\ streamFrameId' = frame
              /\ pendingFrames' = stopped \cup {frame}
              /\ UNCHANGED <<completions, completeSnap>>
      /\ notified' = atEnd
      /\ returned' = Undefined

\* startStream() on a stopped engine, with the listener stopping the engine
\* at the k-th event emitted
startStreamStopped(k) ==
  /\ ~isStreaming
  /\ \E anchor \in {StartAnchor} :
       /\ startTime' = anchor
       /\ StreamEventsStopped(anchor, pendingFrames,
                              IF play.steady THEN [play EXCEPT !.mark = now] ELSE play,
                              k)
  /\ UNCHANGED <<index, speedMultiplier, now>>
  /\ UNCHANGED <<simulation, twins, dashboard, frontend>>

\* an animation-frame callback runs on a streaming engine, with the
\* listener stopping the engine at the k-th event emitted
TickStopped(k) ==
  /\ isStreaming
  /\ \E id \in pendingFrames :
       StreamEventsStopped(startTime, pendingFrames \ {id}, play, k)
  /\ UNCHANGED <<index, speedMultiplier, startTime, now>>
  /\ UNCHANGED <<simulation, twins, dashboard, frontend>>

\* the position the engine is sought to: the end of the timeline, from
\* where one run of _streamEvents emits a batch of all events
ListenerProgresses == {Num(1)}

ListenerNext ==
  \/ startStream
  \/ stopStream
  \/ Tick
  \/ \E progress \in ListenerProgresses : seekToProgress(progress)
  \/ \E k \in 1..MaxEvents : startStreamStopped(k)
  \/ \E k \in 1..MaxEvents : TickStopped(k)
  \/ AdvanceClock

ListenerSpec == Init /\ [][ListenerNext]_vars

(***************************************************************************)
(* An event callback that throws.  MockEventStreamAPI calls every listener *)
(* inside try/catch (lines 158-162 and 171-175), so that a listener that   *)
(* throws leaves _emitEvent and _emitComplete like one that returns.       *)
(* SimulationEngine calls its event callback bare (lines 130-138 and       *)
(* 156-164): an exception leaves the forEach loops and update().           *)
(* In CallbackSpec the event callback passed to start() may throw:         *)
(* updateThrown(k) is a run of update() in which it throws at the k-th     *)
(* event it is handed.                                                     *)
(***************************************************************************)
\* the places <<trip, index>> of all events, in the order of the two
\* forEach loops
AllSlots ==
  Flatten([i \in 1..Len(trips) |->
             [j \in 1..Len(trips[i].events) |-> <<i, j>>]])

\* the places the loops pass to the callback when all of them return:
\* the unprocessed ones at or before the instant t, or all unprocessed ones
DueSlots(t, remaining) ==
  SelectSeq(AllSlots,
            LAMBDA sl : /\ sl[2] \notin processedEvents[sl[1]]
                        /\ (remaining \/ RLe(GetTime(trips[sl[1]].events[sl[2]]), t)))

\* processedEvents once the first k places of due have been added
ProcessedFirst(due, k) ==
  [i \in 1..Len(trips) |->
     processedEvents[i] \cup {due[m][2] : m \in {n \in 1..k : due[n][1] = i}}]

updateThrown(k) ==
  /\ intervalId # 0
  /\ \E t \in {RAdd(ToNumber(simulationTime),
                    RMul(Num(now - lastUpdateTime), engineSpeedMultiplier))} :
       IF RGe(t, GetLatestTimestamp)
       THEN \* processAllRemainingEvents() is left by the exception: no
            \* stop(), no completion callback
            /\ k <= Len(DueSlots(t, TRUE))
            /\ simulationTime' = GetLatestTimestamp
            /\ processedEvents' = ProcessedFirst(DueSlots(t, TRUE), k)
            /\ engineLog' = Passing(Added(ProcessedFirst(DueSlots(t, TRUE), k)))
            /\ run' = UnsteadyRun
       ELSE /\ k <= Len(DueSlots(t, FALSE))
            /\ simulationTime' = t
            /\ processedEvents' = ProcessedFirst(DueSlots(t, FALSE), k)
            /\ engineLog' = Passing(Added(ProcessedFirst(DueSlots(t, FALSE), k)))
            /\ run' = IF run.steady
                      THEN [run EXCEPT !.played = @ + (now - run.mark),
                                       !.mark = now]
                      ELSE run
  /\ lastUpdateTime' = now
  /\ UNCHANGED <<trips, engineSpeedMultiplier, isRunning, intervalId,
                 eventCallbacks>>
  /\ UNCHANGED <<stream, now, pendingFrames, delivered, ticked, completions,
                 completeSnap, seekTarget, notified, returned, play, twins,
                 dashboard, frontend>>

CallbackNext ==
  \/ start
  \/ update
  \/ \E k \in 1..MaxEvents : updateThrown(k)
  \/ pause
  \/ resume
  \/ stop
  \/ AdvanceClock

CallbackSpec == EngineInit /\ [][CallbackNext]_vars

(***************************************************************************)
(* Events with a timestamp that does not parse.  MalformedSpec constructs  *)
(* a MockEventStreamAPI from trips that hold at least one such event and   *)
(* plays it.  getTime() is NaN for such an event and the comparator of     *)
(* line 57 returns NaN, which sort takes as 0: the event compares equal to *)
(* every other.  When two other events compare unequal the comparator is   *)
(* not a consistent comparator, and ECMAScript leaves the order in which   *)
(* sort then leaves the array to the implementation: any order is taken.   *)
(***************************************************************************)
\* the tripsData mappings of at most MaxEvents + 1 events with at least one
\* timestamp that does not parse
MalformedDataSets ==
  UNION {
    { [i \in 1..k |-> [j \in 1..Len(tss[i]) |-> Event(i, j, tss[i][j])]]
        : tss \in {t \in [1..k -> UNION {[1..n -> Timestamps \cup {Unparsable}]
                                           : n \in 0..(MaxEvents + 1)}] :
                      /\ TotalLen(t) <= MaxEvents + 1
                      /\ \E i \in 1..k : \E j \in 1..Len(t[i]) :
                           t[i][j] = Unparsable} }
    : k \in 1..Len(TripOrder) }

\* the comparator calls two events unequal
ComparedUnequal(a, b) == RSub(GetTime(a), GetTime(b)) \notin {Num(0), NaN}

\* whether the comparator orders the events of s consistently: events it
\* calls equal to a third one are not called unequal
ConsistentComparator(s) ==
  \A i, j, k \in 1..Len(s) :
    (~ComparedUnequal(s[i], s[k]) /\ ~ComparedUnequal(s[k], s[j]))
      => ~ComparedUnequal(s[i], s[j])

\* the rearrangements of sequence s
Rearrangements(s) ==
  { [k \in 1..Len(s) |-> s[f[k]]] :
      f \in {g \in [1..Len(s) -> 1..Len(s)] :
               \A a, b \in 1..Len(s) : a # b => g[a] # g[b]} }

\* the arrays this.allEvents.sort(...) can leave
SortOutcomes(pushed) ==
  IF ConsistentComparator(pushed) THEN {SortEvents(pushed)}
  ELSE Rearrangements(pushed)

MalformedInit ==
  /\ now = 0
  /\ MetricsUnloaded
  /\ FrontendUnmounted
  /\ \E data \in MalformedDataSets, speed \in Speeds :
       \E sorted \in SortOutcomes(Flatten(data)) :
         ConstructSorted(data, speed, sorted)
  /\ ConstructEngine(<<>>, Num(1))
  /\ ConstructTwins(Num(1))

MalformedNext ==
  \/ startStream
  \/ stopStream
  \/ Tick
  \/ AdvanceClock

MalformedSpec == MalformedInit /\ [][MalformedNext]_vars

(***************************************************************************)
(* Events around the epoch.  EpochSpec runs MockEventStreamAPI on trips    *)
(* whose instants lie on both sides of instant 0 (1 January 1970), the     *)
(* instants SimulationEngine is run on.                                    *)
(***************************************************************************)
EpochDataSets ==
  { [i \in 1..Len(ts) |-> ts[i].events] : ts \in EngineTripsSets }

EpochInit ==
  /\ now = 0
  /\ MetricsUnloaded
  /\ FrontendUnmounted
  /\ \E data \in EpochDataSets, speed \in Speeds : ConstructAPI(data, speed)
  /\ ConstructEngine(<<>>, Num(1))
  /\ ConstructTwins(Num(1))

EpochSpec == EpochInit /\ [][Next]_vars

(***************************************************************************)
(* The second class definition of the file (lines 306-530).  Its           *)
(* startStream, stopStream, _streamEvents, _getEventsUpToTime,             *)
(* setSpeedMultiplier, getProgress and reset are the text of the first     *)
(* definition; its _indexEvents and its seekToProgress are not.            *)
(* SecondSpec runs an instance of it.  A trip of the input is either a raw *)
(* array of events or an {events: [...]} object: the record                *)
(* [wrapped, events] says which, and holds the events.                     *)
(***************************************************************************)
RawTrip(events) == [wrapped |-> FALSE, events |-> events]

WrappedTrip(events) == [wrapped |-> TRUE, events |-> events]

\* the tripsData mappings with every trip in either form
ShapedDataSets ==
  UNION {
    { [i \in 1..Len(data) |->
         IF i \in w THEN WrappedTrip(data[i]) ELSE RawTrip(data[i])]
        : w \in SUBSET (1..Len(data)) }
    : data \in TripsDataSets }

\* eventsArr of the first definition (lines 41-46), for every trip
EventsArrs(shaped) == [i \in 1..Len(shaped) |-> shaped[i].events]

\* the trips the second definition does not return from at line 335
RECURSIVE WithEvents(_, _)
WithEvents(shaped, i) ==
  IF i > Len(shaped) THEN <<>>
  ELSE IF shaped[i].wrapped
       THEN <<[tripId |-> TripOrder[i], events |-> shaped[i].events]>>
              \o WithEvents(shaped, i + 1)
       ELSE WithEvents(shaped, i + 1)

\* this.eventsByTrip as the first definition leaves it: the keys in the
\* order of their creation, each with its list
EventsByTrip(shaped) ==
  [i \in 1..Len(shaped) |-> [tripId |-> TripOrder[i], events |-> shaped[i].events]]

\* this.eventsByTrip as the second definition leaves it
EventsByTripSecond(shaped) == WithEvents(shaped, 1)

\* _indexEvents of the first definition on trips of either form
IndexEventsFirst(shaped) == IndexEvents(EventsArrs(shaped))

\* _indexEvents of the second definition: no test of the range after the loop
IndexEventsSecond(shaped) ==
  LET kept   == EventsByTripSecond(shaped)
      pushed == Flatten([i \in 1..Len(kept) |-> kept[i].events])
      lo     == MinOver(pushed, PosInfinity)
      hi     == MaxOver(pushed, NegInfinity)
  IN  [allEvents     |-> SortEvents(pushed),
       minTimestamp  |-> lo,
       maxTimestamp  |-> hi,
       totalDuration |-> RSub(hi, lo)]

\* new MockEventStreamAPI(data, speed), second definition
ConstructSecond(data, speed) ==
  /\ tripsData = data
  /\ speedMultiplier = speed
  /\ isStreaming = FALSE
  /\ currentTime = Num(0)
  /\ startTime = Num(now)
  /\ lastTimestamp = Num(0)
  /\ streamFrameId = 0
  /\ allEvents = IndexEventsSecond(data).allEvents
  /\ minTimestamp = IndexEventsSecond(data).minTimestamp
  /\ maxTimestamp = IndexEventsSecond(data).maxTimestamp
  /\ totalDuration = IndexEventsSecond(data).totalDuration
  /\ pendingFrames = {}
  /\ delivered = <<>>
  /\ ticked = FALSE
  /\ completions = 0
  /\ completeSnap = NoSnap
  /\ seekTarget = NoSeek
  /\ notified = FALSE
  /\ returned = Undefined
  /\ play = FreshPlay

\* seekToProgress of the second definition: no guard on totalDuration
seekToProgressSecond(progress) ==
  /\ IF RLt(progress, Num(0)) \/ RGt(progress, Num(1))
     THEN /\ notified' = FALSE
          /\ returned' = Undefined
          /\ UNCHANGED <<stream, now, pendingFrames, delivered, ticked,
                         completions, completeSnap, seekTarget, play>>
     ELSE /\ currentTime' = SeekPosition(progress)
          /\ lastTimestamp' = Num(0)
          /\ startTime' = IF isStreaming
                          THEN Anchor(SeekPosition(progress), speedMultiplier)
                          ELSE startTime
          /\ delivered' = <<>>
          /\ ticked' = FALSE
          /\ completions' = 0
          /\ completeSnap' = NoSnap
          /\ seekTarget' = progress
          /\ play' = Unsteady
          /\ notified' = FALSE
          /\ returned' = Undefined
          /\ UNCHANGED <<index, speedMultiplier, isStreaming, streamFrameId, now,
                         pendingFrames>>
  /\ UNCHANGED <<simulation, twins, dashboard, frontend>>

SecondInit ==
  /\ now = 0
  /\ MetricsUnloaded
  /\ FrontendUnmounted
  /\ \E data \in ShapedDataSets, speed \in Speeds : ConstructSecond(data, speed)
  /\ ConstructEngine(<<>>, Num(1))
  /\ ConstructTwins(Num(1))

SecondNext ==
  \/ startStream
  \/ stopStream
  \/ Tick
  \/ \E multiplier \in Speeds : setSpeedMultiplier(multiplier)
  \/ \E progress \in Progresses : seekToProgressSecond(progress)
  \/ reset
  \/ AdvanceClock

SecondSpec == SecondInit /\ [][SecondNext]_vars

(***************************************************************************)
(* Forward playback.  ForwardSpec runs a MockEventStreamAPI that is        *)
(* started, stopped, ticked and set to other positive speeds, and is       *)
(* neither sought nor reset.                                               *)
(***************************************************************************)
ForwardNext ==
  \/ startStream
  \/ stopStream
  \/ Tick
  \/ \E multiplier \in Speeds : setSpeedMultiplier(multiplier)
  \/ AdvanceClock

ForwardSpec == Init /\ [][ForwardNext]_vars

(***************************************************************************)
(* Two instances at different speeds.  LinearSpec runs two                 *)
(* MockEventStreamAPI instances over the same tripsData: the first is      *)
(* constructed with any speed, the second with speed 1.  Both are sought,  *)
(* started and stopped by the same calls at the same instants and tick on  *)
(* their own.  Each record holds two more history fields: startedAt, the   *)
(* instant of its last startStream() past the guard since the last seek    *)
(* (-1 for none), and from, its position when that call was made.          *)
(***************************************************************************)
LinearInstance(speed) ==
  [speedMultiplier |-> speed,
   isStreaming     |-> FALSE,
   currentTime     |-> Num(0),
   startTime       |-> Num(now),
   lastTimestamp   |-> Num(0),
   delivered       |-> <<>>,
   tickedAt        |-> -1,
   done            |-> FALSE,
   startedAt       |-> -1,
   from            |-> <<>>]

\* the position of an instance: its simulated time and what it has emitted
PositionOf(inst) ==
  <<inst.currentTime, inst.lastTimestamp, inst.delivered>>

StartedOf(inst) ==
  [StartStreamOf(inst) EXCEPT !.startedAt = now, !.from = PositionOf(inst)]

Unstarted(inst) == [inst EXCEPT !.startedAt = -1, !.from = <<>>]

BothStopped == ~twins[1].isStreaming /\ ~twins[2].isStreaming

linearStartStream ==
  /\ BothStopped
  /\ twins' = <<StartedOf(twins[1]), StartedOf(twins[2])>>
  /\ UNCHANGED <<untwinned, now>>

linearSeekToProgress(progress) ==
  /\ BothStopped
  /\ twins' = <<Unstarted(SeekToProgressOf(twins[1], progress)),
               Unstarted(SeekToProgressOf(twins[2], progress))>>
  /\ UNCHANGED <<untwinned, now>>

LinearInit ==
  /\ now = 0
  /\ MetricsUnloaded
  /\ FrontendUnmounted
  /\ \E data \in TripsDataSets : ConstructAPI(data, Num(1))
  /\ ConstructEngine(<<>>, Num(1))
  /\ \E speed \in Speeds : twins = <<LinearInstance(speed), LinearInstance(Num(1))>>

LinearNext ==
  \/ linearStartStream
  \/ bothStopStream
  \/ \E progress \in TwinProgresses : linearSeekToProgress(progress)
  \/ \E i \in 1..2 : TickOf(i)
  \/ AdvanceClock

LinearSpec == LinearInit /\ [][LinearNext]_vars

(***************************************************************************)
(* The metrics functions.  MetricsSpec hands the events of one trip to     *)
(* calculateTripMetrics (src/src/utils/dataLoader.js) and to               *)
(* calculateTripMetricsFromEvents (src/src/redux/store.js), in any order   *)
(* and any number of times.                                                *)
(***************************************************************************)
calculateTripMetrics ==
  /\ tripMetrics' = TripMetrics(tripEvents)
  /\ UNCHANGED <<tripEvents, storeMetrics>>
  /\ UNCHANGED <<stream, now, pendingFrames, delivered, ticked, completions,
                 completeSnap, seekTarget, notified, returned, play,
                 simulation, twins, frontend>>

calculateTripMetricsFromEvents ==
  /\ \E random \in Randoms :
       storeMetrics' = TripMetricsFromEvents(tripEvents, random)
  /\ UNCHANGED <<tripEvents, tripMetrics>>
  /\ UNCHANGED <<stream, now, pendingFrames, delivered, ticked, completions,
                 completeSnap, seekTarget, notified, returned, play,
                 simulation, twins, frontend>>

\* a trip_cancelled event is appended to the events of the trip and both
\* functions are applied to the longer array
cancelTrip ==
  /\ Len(tripEvents) < MaxTripEvents
  /\ \E longer \in {Append(tripEvents,
                            TripEvent("trip_cancelled", 0, 0, Undefined))} :
       /\ tripEvents' = longer
       /\ tripMetrics' = TripMetrics(longer)
       /\ \E random \in Randoms :
            storeMetrics' = TripMetricsFromEvents(longer, random)
  /\ UNCHANGED <<stream, now, pendingFrames, delivered, ticked, completions,
                 completeSnap, seekTarget, notified, returned, play,
                 simulation, twins, frontend>>

MetricsInit ==
  /\ now = 0
  /\ FrontendUnmounted
  /\ ConstructAPI(<<>>, Num(1))
  /\ ConstructEngine(<<>>, Num(1))
  /\ ConstructTwins(Num(1))
  /\ tripEvents \in TripEventSeqs
  /\ tripMetrics = NoMetrics
  /\ storeMetrics = NoMetrics

MetricsNext ==
  \/ calculateTripMetrics
  \/ calculateTripMetricsFromEvents
  \/ cancelTrip

MetricsSpec == MetricsInit /\ [][MetricsNext]_vars

(***************************************************************************)
(* MockAPIServer (src/unnamed/part_001).  ServerSpec builds a server from  *)
(* trips given as {events: [...]} objects and calls getEvents and          *)
(* getTripEvents with a tripId, a startTime and an offset; endTime is left *)
(* out and limit keeps its default.                                        *)
(***************************************************************************)
\* the tripId of the options: a trip of the data, a trip that may be
\* missing from it, a trip that is never in it, or no tripId
TripIds == {"A", "B", "C"}

\* the startTime of the options, 0 for none (a falsy startTime)
StartTimes == {0, MaxTs}

Offsets == {0, 1}

\* the default of limit
DefaultLimit == 100

\* the place of this.tripsData[tripId] in the data, 0 for undefined
TripAt(data, tripId) ==
  IF \E i \in 1..Len(data) : TripOrder[i] = tripId
  THEN CHOOSE i \in 1..Len(data) : TripOrder[i] = tripId
  ELSE 0

\* events.slice(offset, offset + limit)
Slice(events, offset, limit) ==
  SubSeq(events, offset + 1,
         IF offset + limit < Len(events) THEN offset + limit ELSE Len(events))

\* getEvents({tripId, startTime: from, offset})
getEvents(tripId, from, offset) ==
  \E data \in {server.tripsData} :
  \E i \in {IF tripId = Undefined THEN 0 ELSE TripAt(data, tripId)} :
  \E events \in {IF i # 0 THEN data[i] ELSE Flatten(data)} :
  \E filtered \in {IF from # 0
                   THEN SelectSeq(events,
                                  LAMBDA e : RGe(GetTime(e), Num(from)))
                   ELSE events} :
  \E sorted \in {SortEvents(filtered)} :
    /\ server' = [tripsData |-> IF i # 0 /\ from = 0
                                THEN [data EXCEPT ![i] = sorted] ELSE data,
                  response  |-> [tripId |-> tripId,
                                 events |-> Slice(sorted, offset, DefaultLimit),
                                 total  |-> Len(sorted)]]
    /\ UNCHANGED <<stream, now, pendingFrames, delivered, ticked, completions,
                   completeSnap, seekTarget, notified, returned, play,
                   simulation, twins, dashboard, hook>>

\* getTripEvents(tripId, {offset}); the result for a trip that is not
\* found has no total (-1)
getTripEvents(tripId, offset) ==
  \E data \in {server.tripsData} :
  \E i \in {TripAt(data, tripId)} :
    /\ server' = [server EXCEPT
                    !.response =
                      IF i = 0
                      THEN [tripId |-> tripId, events |-> <<>>, total |-> -1]
                      ELSE [tripId |-> tripId,
                            events |-> Slice(data[i], offset, DefaultLimit),
                            total  |-> Len(data[i])]]
    /\ UNCHANGED <<stream, now, pendingFrames, delivered, ticked, completions,
                   completeSnap, seekTarget, notified, returned, play,
                   simulation, twins, dashboard, hook>>

ServerInit ==
  /\ now = 0
  /\ MetricsUnloaded
  /\ ConstructAPI(<<>>, Num(1))
  /\ ConstructEngine(<<>>, Num(1))
  /\ ConstructTwins(Num(1))
  /\ hook = MountedHook
  /\ \E data \in TripsDataSets : ConstructServer(data)

ServerNext ==
  \/ \E tripId \in TripIds \cup {Undefined}, from \in StartTimes,
        offset \in Offsets : getEvents(tripId, from, offset)
  \/ \E tripId \in TripIds, offset \in Offsets : getTripEvents(tripId, offset)

ServerSpec == ServerInit /\ [][ServerNext]_vars

(***************************************************************************)
(* The hook useSimulation(trips, isPlaying, speed) of                      *)
(* src/src/hooks/useFleetData.js.  SimulationHookSpec mounts it over the   *)
(* trips of the data, each an array of events, and renders it with new     *)
(* values of isPlaying and speed, runs the frames of animate it requests   *)
(* and calls resetSimulation and seekToProgress.                           *)
(***************************************************************************)
\* the integral part of a finite x >= 0: the instant that
\* new Date(x).toISOString() names
TimeClip(x) == Num(x.n \div x.d)

\* simStartTimeRef and simEndTimeRef: Math.min and Math.max over the
\* instants of all events, null while there are none
SimStartTimeRef ==
  IF Flatten(tripsData) = <<>> THEN Null
  ELSE MinOver(Flatten(tripsData), PosInfinity)

SimEndTimeRef ==
  IF Flatten(tripsData) = <<>> THEN Null
  ELSE MaxOver(Flatten(tripsData), NegInfinity)

HookFrame ==
  UNCHANGED <<stream, now, pendingFrames, delivered, ticked, completions,
              completeSnap, seekTarget, notified, returned, play,
              simulation, twins, dashboard, server>>

\* a render with isPlaying = true after one with isPlaying = false: the
\* animation effect runs
simulationPlay ==
  /\ ~hook.isPlaying
  /\ hook' =
       IF tripsData = <<>>
       THEN [hook EXCEPT !.isPlaying = TRUE]
       ELSE [hook EXCEPT
               !.isPlaying = TRUE,
               !.startTimeRef =
                 IF hook.startTimeRef = Null /\ Flatten(tripsData) # <<>>
                 THEN [real |-> now,
                       sim  |-> GetTime(SortEvents(Flatten(tripsData))[1])]
                 ELSE hook.startTimeRef,
               !.animationFrameRef = TRUE,
               !.resume = IF hook.resume.time = Null THEN NoResume
                          ELSE [hook.resume EXCEPT !.at = now]]
  /\ HookFrame

\* a render with isPlaying = false after one with isPlaying = true: the
\* cleanup of the animation effect cancels the frame
simulationPause ==
  /\ hook.isPlaying
  /\ hook' = [hook EXCEPT
               !.isPlaying = FALSE,
               !.animationFrameRef = FALSE,
               !.resume = IF /\ hook.currentTime # Null
                             /\ hook.shown = "frame" /\ hook.animatedAt = now
                          THEN [time |-> hook.currentTime, at |-> -1]
                          ELSE NoResume]
  /\ HookFrame

\* a render with another speed: timeMultiplierRef.current = speed
simulationSetSpeed(speed) ==
  /\ speed # hook.speed
  /\ hook' = [hook EXCEPT !.speed = speed, !.timeMultiplierRef = speed,
                          !.resume = NoResume,
                          !.shown = IF @ = "no" THEN @ ELSE "speed"]
  /\ HookFrame

\* the requested frame runs animate
animate ==
  /\ hook.animationFrameRef
  /\ IF hook.startTimeRef = Null
     THEN hook' = [hook EXCEPT !.animatedAt = now, !.resume = NoResume]
     ELSE \E newTime \in
            {TimeClip(RAdd(hook.startTimeRef.sim,
                           RMul(Num(now - hook.startTimeRef.real),
                                hook.timeMultiplierRef)))} :
            IF SimEndTimeRef # Null /\ RGe(newTime, SimEndTimeRef)
            THEN hook' = [hook EXCEPT !.currentTime = SimEndTimeRef,
                                      !.animationFrameRef = FALSE,
                                      !.animatedAt = now,
                                      !.resume = NoResume, !.shown = "frame"]
            ELSE hook' = [hook EXCEPT !.currentTime = newTime,
                                      !.animatedAt = now,
                                      !.resume = NoResume, !.shown = "frame"]
  /\ HookFrame

resetSimulation ==
  /\ hook' = [hook EXCEPT !.currentTime = Null, !.startTimeRef = Null,
                          !.resume = NoResume, !.shown = "no"]
  /\ HookFrame

simulationSeekToProgress(newProgress) ==
  /\ IF SimStartTimeRef # Null /\ SimEndTimeRef # Null
     THEN \E newMs \in {RAdd(SimStartTimeRef,
                             RMul(RSub(SimEndTimeRef, SimStartTimeRef),
                                  newProgress))} :
            hook' = [hook EXCEPT !.currentTime = TimeClip(newMs),
                                 !.startTimeRef = [real |-> now, sim |-> newMs],
                                 !.resume = NoResume, !.shown = "no"]
     ELSE UNCHANGED hook
  /\ HookFrame

SimulationHookInit ==
  /\ now = 0
  /\ MetricsUnloaded
  /\ ConstructServer(<<>>)
  /\ hook = MountedHook
  /\ \E data \in TripsDataSets : ConstructAPI(data, Num(1))
  /\ ConstructEngine(<<>>, Num(1))
  /\ ConstructTwins(Num(1))

SimulationHookNext ==
  \/ simulationPlay
  \/ simulationPause
  \/ \E speed \in Speeds : simulationSetSpeed(speed)
  \/ animate
  \/ resetSimulation
  \/ \E newProgress \in Progresses : simulationSeekToProgress(newProgress)
  \/ AdvanceClock

SimulationHookSpec == SimulationHookInit /\ [][SimulationHookNext]_vars

(***************************************************************************)
(* The hook useMockEventStream(trips, isPlaying, speedMultiplier) of       *)
(* src/src/hooks/useFleetData.js.  StreamHookSpec mounts it over the trips *)
(* of the data and renders it with new values of isPlaying and             *)
(* speedMultiplier; the MockEventStreamAPI instance of apiRef is a record  *)
(* as in TwinSpec, and the frames it requests run between the renders.     *)
(* resetStream and seekToProgress of the hook are left out.                *)
(***************************************************************************)
\* what handleStreamEvent has appended to streamEvents when the instance
\* before has become the instance after in one call
Received(before, after) ==
  SubSeq(after.delivered, Len(before.delivered) + 1, Len(after.delivered))

\* the effect of lines 235-245 on a mount with speed
MountStream(speed) ==
  IF tripsData = <<>> THEN Null ELSE ConstructInstance(speed)

\* a render with isPlaying = true after one with isPlaying = false: the
\* play/stop effect sets the speed, subscribes and starts the stream
streamPlay ==
  /\ ~hook.isPlaying
  /\ IF hook.apiRef = Null
     THEN hook' = [hook EXCEPT !.isPlaying = TRUE]
     ELSE \E started \in
            {StartStreamOf(SetSpeedMultiplierOf(hook.apiRef, hook.speed))} :
            hook' = [hook EXCEPT
                       !.isPlaying = TRUE,
                       !.apiRef = started,
                       !.streamEvents = @ \o Received(hook.apiRef, started)]
  /\ HookFrame

\* a render with isPlaying = false after one with isPlaying = true: the
\* play/stop effect stops the stream and unsubscribes
streamPause ==
  /\ hook.isPlaying
  /\ hook' = [hook EXCEPT
                !.isPlaying = FALSE,
                !.apiRef = IF @ = Null THEN @ ELSE StopStreamOf(@)]
  /\ HookFrame

\* a render with another speedMultiplier: the cleanups stop the stream of
\* the instance and unsubscribe, the initialisation effect builds a new
\* instance, and the play/stop effect starts or stops it (renders are
\* followed while streamEvents holds no more events than the data)
streamSetSpeed(speed) ==
  /\ speed # hook.speed
  /\ Len(hook.streamEvents) <= MaxEvents
  /\ \E built \in {MountStream(speed)} :
     \E started \in {IF built = Null THEN built
                     ELSE IF hook.isPlaying
                          THEN StartStreamOf(SetSpeedMultiplierOf(built, speed))
                          ELSE StopStreamOf(built)} :
       hook' = [hook EXCEPT
                  !.speed = speed,
                  !.apiRef = started,
                  !.streamEvents = IF built = Null THEN @
                                   ELSE @ \o Received(built, started)]
  /\ HookFrame

\* the frame requested by the instance runs _streamEvents
streamTick ==
  /\ hook.apiRef # Null
  /\ hook.apiRef.isStreaming
  /\ \E after \in {StreamEventsOf(hook.apiRef)} :
       hook' = [hook EXCEPT
                  !.apiRef = after,
                  !.streamEvents = @ \o Received(hook.apiRef, after)]
  /\ HookFrame

StreamHookInit ==
  /\ now = 0
  /\ MetricsUnloaded
  /\ ConstructServer(<<>>)
  /\ \E data \in TripsDataSets : ConstructAPI(data, Num(1))
  /\ hook = [MountedHook EXCEPT !.apiRef = MountStream(Num(1))]
  /\ ConstructEngine(<<>>, Num(1))
  /\ ConstructTwins(Num(1))

StreamHookNext ==
  \/ streamPlay
  \/ streamPause
  \/ \E speed \in Speeds : streamSetSpeed(speed)
  \/ streamTick
  \/ AdvanceClock

StreamHookSpec == StreamHookInit /\ [][StreamHookNext]_vars

(***************************************************************************)
(* One run of SimulationEngine: RunSpec starts the engine, lets its        *)
(* interval timer fire, pauses and resumes it and changes its speed, with  *)
(* no stop(), reset() or seek.  A start() after the completion begins the  *)
(* next run.                                                               *)
(***************************************************************************)
RunNext ==
  \/ start
  \/ update
  \/ pause
  \/ resume
  \/ \E multiplier \in Speeds : engineSetSpeedMultiplier(multiplier)
  \/ AdvanceClock

RunSpec == EngineInit /\ [][RunNext]_vars

(***************************************************************************)
(* The claims.                                                             *)
(***************************************************************************)
InRange(progress) == RGe(progress, Num(0)) /\ RLe(progress, Num(1))

\* whether the indexed event e lies at or before the relative time cutoff
UpTo(e, cutoff) == RLe(GetTime(e), RAdd(minTimestamp, cutoff))

\* C1: once _streamEvents has run, every indexed event at or before
\* minTimestamp + currentTime has been handed to the event listeners since
\* the last construction, seek or reset
C1_TickDeliversAllUpToCutoff ==
  ticked =>
    \A k \in 1..Len(allEvents) :
      UpTo(allEvents[k], currentTime) => Among(allEvents[k], delivered)

\* C2: between two seeks or resets no event is handed to the event
\* listeners twice, whatever startStream, stopStream, setSpeedMultiplier
\* calls and ticks are interleaved
C2_NoEventDeliveredTwice ==
  \A i, j \in 1..Len(delivered) : i # j => delivered[i] # delivered[j]

\* a playback that was paused and resumed has handed over two events
C2_Witness ==
  /\ play.phase = 3
  /\ Len(delivered) = 2
  /\ delivered[1].timestamp < delivered[2].timestamp

\* C3: completion is signalled at most once between two seeks or resets,
\* and no seekToProgress call signals it
C3_CompletionExactlyOnce ==
  [][ /\ completions' <= 1
      /\ (\E p \in Progresses : seekToProgress(p)) => ~notified' ]_vars

\* C4: with totalDuration 0, startStream() on a stopped engine signals
\* completion within the call and leaves the engine stopped with no
\* callback requested
C4_ZeroDurationCompletesInStart ==
  [][ (~isStreaming /\ totalDuration = Num(0) /\ startStream)
        => (notified' /\ ~isStreaming' /\ pendingFrames' = {}) ]_vars

\* C5: when the completion listeners are called every indexed event has
\* been handed to the event listeners, isStreaming is false and no
\* callback is requested
C5_CompletionAfterFinalBatch ==
  completeSnap.taken =>
    /\ completeSnap.allDelivered
    /\ ~completeSnap.isStreaming
    /\ completeSnap.streamFrameId = 0
    /\ completeSnap.pending = {}

C7_PauseResumeContinuity ==
  play.steady => currentTime = RMul(Num(play.played), speedMultiplier)

\* a playback that had advanced was paused for a positive wall-clock time,
\* resumed, and a tick advanced it further
C7_Witness == play.steady /\ play.phase = 3

\* C7, for SimulationEngine: without a change of speed, the simulated time
\* of an engine with at least one event is the earliest instant plus the
\* wall-clock time played (from each start, resume or update to the next
\* update) times the speed
C7_EnginePauseResumeContinuity ==
  (run.steady /\ simulationTime # Null /\ EarliestOver(trips, PosInfinity) # PosInfinity)
    => simulationTime = RAdd(EarliestOver(trips, PosInfinity),
                             RMul(Num(run.played), engineSpeedMultiplier))

\* C8: the run of _streamEvents that follows an accepted seek hands to the
\* event listeners every indexed event at or before the position sought
C8_SeekRevealsFullPrefix ==
  [][ (seekTarget # NoSeek /\ seekTarget' = NoSeek /\ ticked')
        => \A k \in 1..Len(allEvents) :
             UpTo(allEvents[k], RMul(totalDuration, seekTarget))
               => Among(allEvents[k], delivered') ]_vars

\* C9, as claimed: getProgress() after seekToProgress(p), p in [0, 1], and
\* before the next run of _streamEvents returns p, for every dataset
C9_SeekThenProgress ==
  seekTarget # NoSeek => GetProgress = seekTarget

\* C9, amended: getProgress() after seekToProgress(p), p in [0, 1], and
\* before the next run of _streamEvents returns p when totalDuration > 0,
\* and 0 when totalDuration is 0
C9_SeekThenProgressPositiveDuration ==
  seekTarget # NoSeek =>
    GetProgress = (IF RGt(totalDuration, Num(0)) THEN seekTarget ELSE Num(0))

\* a running stream over a timeline of positive length was sought to 1/2
C9_Witness ==
  /\ RGt(totalDuration, Num(0))
  /\ isStreaming
  /\ seekTarget = Norm(1, 2)
  /\ GetProgress = Norm(1, 2)

\* what an accepted seekToProgress hands back to its caller
AcceptedSeekReturn == Undefined

\* C10: seekToProgress(p) with p outside [0, 1] changes no field of the
\* engine and hands its caller something an accepted seek does not
C10_RejectedSeekIsSignalled ==
  [][ \A p \in Progresses :
        (~InRange(p) /\ seekToProgress(p))
          => /\ UNCHANGED <<currentTime, lastTimestamp, startTime,
                            isStreaming, speedMultiplier>>
             /\ returned' # AcceptedSeekReturn ]_vars

\* C11: setSpeedMultiplier(v) with v <= 0, on either class, leaves the
\* speed multiplier and every other field of the object as they were
C11_NonPositiveSpeedRejected ==
  [][ \A v \in Multipliers :
        RLe(v, Num(0)) =>
          /\ setSpeedMultiplier(v) => UNCHANGED stream
          /\ engineSetSpeedMultiplier(v)
               => UNCHANGED <<trips, engineSpeedMultiplier, isRunning,
                              simulationTime, processedEvents, intervalId,
                              lastUpdateTime, eventCallbacks>> ]_vars

\* C11, for MockEventStreamAPI alone
C11_StreamSpeedRejected ==
  [][ \A v \in Multipliers :
        (RLe(v, Num(0)) /\ setSpeedMultiplier(v)) => UNCHANGED stream ]_vars

\* C11, for SimulationEngine alone
C11_EngineSpeedRejected ==
  [][ \A v \in Multipliers :
        (RLe(v, Num(0)) /\ engineSetSpeedMultiplier(v))
          => UNCHANGED engineSpeedMultiplier ]_vars

\* the simulated elapsed time a run of _streamEvents computes at this
\* instant: (Date.now() - this.startTime) * this.speedMultiplier
ElapsedNow == RMul(RSub(Num(now), startTime), speedMultiplier)

\* C12: setSpeedMultiplier(v) with v > 0 on a streaming engine leaves the
\* simulated elapsed time of the instant of the call as it was
C12_SpeedChangeKeepsPosition ==
  [][ \A v \in Speeds :
        (isStreaming /\ RGt(v, Num(0)) /\ setSpeedMultiplier(v))
          => ElapsedNow' = ElapsedNow ]_vars

\* C12, for the calls made at the instant of the last run of _streamEvents
\* only
C12_SpeedChangeAtTickKeepsPosition ==
  [][ \A v \in Speeds :
        (isStreaming /\ currentTime = ElapsedNow /\ setSpeedMultiplier(v))
          => ElapsedNow' = ElapsedNow ]_vars

\* the simulated elapsed time a run of _streamEvents of inst computes at
\* this instant
ElapsedOf(inst) == RMul(RSub(Num(now), inst.startTime), inst.speedMultiplier)

\* the events of sequence s, as a set
Range(s) == {s[k] : k \in 1..Len(s)}

\* C13: two instances that were given the same calls at the same instants
\* and have not completed compute the same elapsed time in a tick at this
\* instant, and have been handed the same set of events when both have
\* ticked at this instant, however their earlier ticks were placed
C13_TickRateIndependence ==
  (~twins[1].done /\ ~twins[2].done) =>
    /\ (twins[1].isStreaming /\ twins[2].isStreaming)
         => ElapsedOf(twins[1]) = ElapsedOf(twins[2])
    /\ (twins[1].tickedAt = now /\ twins[2].tickedAt = now)
         => /\ twins[1].currentTime = twins[2].currentTime
            /\ Range(twins[1].delivered) = Range(twins[2].delivered)

\* the events of the trips of SimulationEngine at or before the instant t
EventsUpToInstant(t) ==
  UNION { {trips[i].events[j] : j \in {k \in 1..Len(trips[i].events) :
                                        RLe(GetTime(trips[i].events[k]), t)}}
          : i \in 1..Len(trips) }

\* the events whose index is in the processedEvents set of their trip: the
\* events SimulationEngine has passed to its event callback
EngineDelivered ==
  UNION { {trips[i].events[j] : j \in processedEvents[i]}
          : i \in 1..Len(trips) }

\* C14, for SimulationEngine: an update() that does not complete leaves
\* exactly the events at or before simulationTime processed
C14_EngineDeliversUpToCutoff ==
  [][ (update /\ simulationTime' # Null)
        => EngineDelivered' = EventsUpToInstant(simulationTime') ]_vars

\* C14: in forward playback of one dataset by both classes, a tick of
\* MockEventStreamAPI leaves delivered, and an update() of SimulationEngine
\* that does not complete leaves processed, exactly the events at or before
\* the cutoff it has reached; so both have delivered the same set of events
\* whenever their cutoffs are the same
C14_SameSetForSameCutoff ==
  [][ /\ (update /\ simulationTime' # Null)
         => EngineDelivered' = EventsUpToInstant(simulationTime')
      /\ ticked'
         => Range(delivered') =
              EventsUpToInstant(RAdd(minTimestamp', currentTime'))
      /\ ( /\ ticked'
           /\ simulationTime' # Null
           /\ EngineDelivered' = EventsUpToInstant(simulationTime')
           /\ RAdd(minTimestamp', currentTime') = simulationTime' )
         => Range(delivered') = EngineDelivered' ]_vars

\* C15, for the stops made between two runs of _streamEvents: on an engine
\* that is not streaming an animation-frame callback hands no event to the
\* event listeners, signals no completion and leaves currentTime alone
C15_NoDeliveryWhileStopped ==
  [][ (~isStreaming /\ Tick)
        => /\ delivered' = delivered
           /\ ~notified'
           /\ currentTime' = currentTime ]_vars

C16_ThrowingCallbackChangesNothing ==
  [][ \A k \in 1..MaxEvents : updateThrown(k) => update ]_vars

\* whether the timestamp of event e parses
Parsable(e) == e.timestamp # Unparsable

\* the trips without the events whose timestamp does not parse
ValidOnly(data) == [i \in 1..Len(data) |-> SelectSeq(data[i], Parsable)]

\* C17, the half about the time range: events whose timestamp does not
\* parse leave minTimestamp, maxTimestamp and totalDuration as the other
\* events alone make them
C17_MalformedLeaveRange ==
  /\ minTimestamp = IndexEvents(ValidOnly(tripsData)).minTimestamp
  /\ maxTimestamp = IndexEvents(ValidOnly(tripsData)).maxTimestamp
  /\ totalDuration = IndexEvents(ValidOnly(tripsData)).totalDuration

\* C17, the half about delivery: no event whose timestamp does not parse
\* is handed to the event listeners
C17_MalformedNeverDelivered ==
  \A k \in 1..Len(delivered) : Parsable(delivered[k])

\* C17: an event whose timestamp does not parse is not in allEvents and is
\* never handed to the event listeners, the time range is that of the
\* other events, and those are all in allEvents in ascending order of
\* their instants
C17_MalformedExcluded ==
  /\ \A k \in 1..Len(allEvents) : Parsable(allEvents[k])
  /\ \A k \in 1..Len(delivered) : Parsable(delivered[k])
  /\ minTimestamp = IndexEvents(ValidOnly(tripsData)).minTimestamp
  /\ maxTimestamp = IndexEvents(ValidOnly(tripsData)).maxTimestamp
  /\ totalDuration = IndexEvents(ValidOnly(tripsData)).totalDuration
  /\ \A i \in 1..Len(tripsData) : \A j \in 1..Len(tripsData[i]) :
       Parsable(tripsData[i][j]) => Among(tripsData[i][j], allEvents)
  /\ \A i, j \in 1..Len(allEvents) :
       (i < j /\ Parsable(allEvents[i]) /\ Parsable(allEvents[j]))
         => RLe(GetTime(allEvents[i]), GetTime(allEvents[j]))

\* C17, the half about the order alone: the events of allEvents whose
\* timestamp parses are in ascending order of their instants
C17_ValidEventsAscending ==
  \A i, j \in 1..Len(allEvents) :
    (i < j /\ Parsable(allEvents[i]) /\ Parsable(allEvents[j]))
      => RLe(GetTime(allEvents[i]), GetTime(allEvents[j]))

\* C18, the first half: after construction, reset() and an accepted
\* seekToProgress(), until _streamEvents runs, lastTimestamp is lower than
\* the instant of every indexed event
C18_SentinelBelowEveryEvent ==
  ~ticked => \A k \in 1..Len(allEvents) :
               RLt(lastTimestamp, GetTime(allEvents[k]))

\* C18: after construction, reset() and an accepted seekToProgress(),
\* until _streamEvents runs, lastTimestamp is lower than the instant of
\* every indexed event; and once _streamEvents has run, every instant at
\* or before minTimestamp + currentTime that holds an indexed event has had
\* an event of that instant handed to the event listeners
C18_SentinelBelowAndDelivered ==
  /\ ~ticked => \A k \in 1..Len(allEvents) :
                  RLt(lastTimestamp, GetTime(allEvents[k]))
  /\ ticked => \A k \in 1..Len(allEvents) :
                 UpTo(allEvents[k], currentTime)
                   => \E m \in 1..Len(delivered) :
                        delivered[m].timestamp = allEvents[k].timestamp

\* the place of event e in the input: its trip in the order of the input
\* mapping, then its position within the trip
InputPlace(e) ==
  <<CHOOSE i \in 1..Len(TripOrder) : TripOrder[i] = e.tripId, e.idx>>

\* whether event a comes before event b in the input
InputBefore(a, b) ==
  \/ InputPlace(a)[1] < InputPlace(b)[1]
  \/ InputPlace(a)[1] = InputPlace(b)[1] /\ InputPlace(a)[2] < InputPlace(b)[2]

\* C19: the events are handed to the event listeners in non-decreasing
\* order of their instants; allEvents holds every event of the input once,
\* in ascending order of the instants, and events of one instant in the
\* order of the input (trips in the order of the mapping, then position
\* within the trip)
C19_SortedStableOrder ==
  /\ \A i, j \in 1..Len(delivered) :
       i < j => RLe(GetTime(delivered[i]), GetTime(delivered[j]))
  /\ Len(allEvents) = TotalLen(tripsData)
  /\ \A i \in 1..Len(tripsData) : \A j \in 1..Len(tripsData[i]) :
       Among(tripsData[i][j], allEvents)
  /\ \A i, j \in 1..Len(allEvents) :
       i < j =>
         /\ RLe(GetTime(allEvents[i]), GetTime(allEvents[j]))
         /\ GetTime(allEvents[i]) = GetTime(allEvents[j])
              => InputBefore(allEvents[i], allEvents[j])

\* two trips hold an event of the same instant each, and the engine has
\* handed an event to the listeners
C19_Witness ==
  /\ Len(allEvents) = 2
  /\ allEvents[1].tripId # allEvents[2].tripId
  /\ allEvents[1].timestamp = allEvents[2].timestamp
  /\ Len(delivered) > 0

\* a trip holds its events in descending order of their instants, and the
\* engine has handed both to the listeners
C19_WitnessUnsortedInput ==
  /\ Len(tripsData) = 1
  /\ Len(tripsData[1]) = 2
  /\ tripsData[1][1].timestamp > tripsData[1][2].timestamp
  /\ Len(delivered) = 2

\* the relative times _getEventsUpToTime is asked for: from before the
\* first event to after the last one, in steps of half a millisecond
Cutoffs == {Norm(n, 2) : n \in (-2)..(2 * MaxTs)}

\* two trips, A at 0 s, 10 s and 20 s and B at 5 s and 15 s (instants in
\* seconds), and what _getEventsUpToTime(15 s) returns on their index
ExampleTrips ==
  << <<Event(1, 1, 0), Event(1, 2, 10), Event(1, 3, 20)>>,
     <<Event(2, 1, 5), Event(2, 2, 15)>> >>

ExampleResult ==
  FilterUpTo(IndexEvents(ExampleTrips).allEvents,
             RAdd(IndexEvents(ExampleTrips).minTimestamp, Num(15)))

\* C20: _getEventsUpToTime(c) returns the indexed events at or before
\* minTimestamp + c, each once and no other, in ascending order of their
\* instants; on trips A at 0, 10, 20 and B at 5, 15 it returns
\* [A@0, B@5, A@10, B@15] for c = 15
C20_EventsUpToTime ==
  /\ \A c \in Cutoffs :
       LET result == GetEventsUpToTime(c)
       IN  /\ \A k \in 1..Len(allEvents) :
                Among(allEvents[k], result) <=> UpTo(allEvents[k], c)
           /\ \A k \in 1..Len(result) : Among(result[k], allEvents)
           /\ Len(result) =
                Cardinality({k \in 1..Len(allEvents) : UpTo(allEvents[k], c)})
           /\ \A i, j \in 1..Len(result) :
                i < j => RLe(GetTime(result[i]), GetTime(result[j]))
  /\ ExampleResult =
       <<Event(1, 1, 0), Event(2, 1, 5), Event(1, 2, 10), Event(2, 2, 15)>>

\* a run of _streamEvents has asked for the events up to a time that lies
\* between the two events of the index
C20_Witness ==
  /\ ticked
  /\ Len(allEvents) = 2
  /\ Len(GetEventsUpToTime(currentTime)) = 1
  /\ RGt(currentTime, Num(0))

\* whether the range this instance holds is the range of the given events
RangeIsOf(events) ==
  /\ events = <<>> => minTimestamp = Num(0) /\ maxTimestamp = Num(0)
  /\ events # <<>> =>
       /\ \E k \in 1..Len(events) : GetTime(events[k]) = minTimestamp
       /\ \E k \in 1..Len(events) : GetTime(events[k]) = maxTimestamp
       /\ \A k \in 1..Len(events) :
            /\ RLe(minTimestamp, GetTime(events[k]))
            /\ RGe(maxTimestamp, GetTime(events[k]))
  /\ totalDuration = RSub(maxTimestamp, minTimestamp)
  /\ IsFinite(totalDuration)
  /\ RGe(totalDuration, Num(0))

\* C21, first definition of _indexEvents: minTimestamp and maxTimestamp are
\* the earliest and the latest instant of the events of the input, 0 both
\* when the input has no event, and totalDuration is their difference, a
\* finite number that is not negative
C21_FirstDefinitionRange == RangeIsOf(Flatten(tripsData))

\* C21: after the constructor has indexed the input, whatever the number of
\* trips and of events, minTimestamp and maxTimestamp are the earliest and
\* the latest instant of the events (0 both without events) and
\* totalDuration = maxTimestamp - minTimestamp is finite and at least 0
C21_IndexedRange == RangeIsOf(Flatten(EventsArrs(tripsData)))

\* C21, second definition on {events: [...]} trips only: the same range
C21_SecondDefinitionWrappedRange ==
  (\A i \in 1..Len(tripsData) : tripsData[i].wrapped) =>
    RangeIsOf(Flatten(EventsArrs(tripsData)))

\* C21, second definition on {events: [...]} trips with an event: the same
\* range
C21_SecondDefinitionNonEmptyRange ==
  /\ \A i \in 1..Len(tripsData) : tripsData[i].wrapped
  /\ Flatten(EventsArrs(tripsData)) # <<>>
  => RangeIsOf(Flatten(EventsArrs(tripsData)))

\* C22: getProgress() of MockEventStreamAPI returns a value in [0, 1] in
\* every reachable state (before the start, while streaming, stopped, after
\* a seek, after the completion, after a reset), and 0 when totalDuration
\* is 0
C22_ProgressInRange ==
  /\ InRange(GetProgress)
  /\ totalDuration = Num(0) => GetProgress = Num(0)

\* C22, SimulationEngine: getProgress() returns a value in [0, 1] in every
\* reachable state, and 0 when the latest and the earliest instant are the
\* same
C22_EngineProgressInRange ==
  /\ InRange(EngineGetProgress)
  /\ GetLatestTimestamp = GetEarliestTimestamp => EngineGetProgress = Num(0)

\* C22, SimulationEngine without events: getProgress() returns 0
C22_EngineProgressWithoutEvents ==
  (\A i \in 1..Len(trips) : trips[i].events = <<>>) => EngineGetProgress = Num(0)

\* the state of a MockEventStreamAPI that is idle at the start of the
\* timeline: the fields as the constructor sets them, no callback requested
StreamIdle ==
  /\ ~isStreaming
  /\ streamFrameId = 0
  /\ pendingFrames = {}
  /\ currentTime = Num(0)
  /\ GetProgress = Num(0)
  /\ lastTimestamp = Num(0)
  /\ startTime = Num(now)

\* a step that leaves a SimulationEngine idle at the start of the timeline:
\* not running, no interval timer, at the earliest instant with no event
\* processed
EngineLeftIdle ==
  /\ ~isRunning'
  /\ intervalId' = 0
  /\ simulationTime' = InitializedTime
  /\ EngineProgressAt(simulationTime') = Num(0)
  /\ processedEvents' = InitializedSets

\* C23: after reset() the playback is stopped (not streaming or running, no
\* animation-frame callback or interval timer left), the simulated elapsed
\* time and the progress are 0 and the bookkeeping of the emitted events is
\* at its initial value, for MockEventStreamAPI and for SimulationEngine
C23_ResetReturnsToIdle ==
  [][ (reset => StreamIdle') /\ (engineReset => EngineLeftIdle) ]_vars

\* C23, MockEventStreamAPI: reset() leaves the stream idle at the start
C23_StreamResetReturnsToIdle == [][ reset => StreamIdle' ]_vars

\* C23, SimulationEngine that is not running: reset() leaves it idle at the
\* start
C23_PausedEngineResetReturnsToIdle ==
  [][ (~isRunning /\ engineReset) => EngineLeftIdle ]_vars

\* C24: startStream() on a MockEventStreamAPI that is streaming, and
\* start() on a SimulationEngine that is running, change nothing: the
\* wall-clock anchor, the simulated time, the stored callbacks and the
\* bookkeeping of the delivered events stay as they are, no event is
\* handed to a listener, no completion is signalled and no further
\* animation-frame callback or interval is set up
C24_StartWhilePlayingIsNoOp ==
  [][ /\ (isStreaming /\ startStream)
          => UNCHANGED <<stream, pendingFrames, delivered, completions>>
      /\ \A c \in Callers :
           (isRunning /\ startWith(<<c>>))
             => UNCHANGED <<trips, engineSpeedMultiplier, isRunning,
                            simulationTime, processedEvents, intervalId,
                            lastUpdateTime, eventCallbacks>> ]_vars

\* C24, reached: a stream that has ticked, delivered an event and whose
\* anchor would move if it were taken again now, next to a running engine
\* that was started by caller 1 and last updated before now
C24_Witness ==
  /\ isStreaming
  /\ ticked
  /\ pendingFrames # {}
  /\ Len(delivered) > 0
  /\ StartAnchor # startTime
  /\ isRunning
  /\ eventCallbacks = <<1>>
  /\ lastUpdateTime < now

IsPrefix(s, t) == Len(s) <= Len(t) /\ SubSeq(t, 1, Len(s)) = s

\* C26: in forward playback (no seek, no reset) the events revealed never
\* become fewer as the wall clock advances: every step keeps the events
\* already handed to the listeners and adds at their end, and the events
\* at or before the current position after the step include those at or
\* before the position before it
C26_MonotonicReveal ==
  [][ /\ IsPrefix(delivered, delivered')
      /\ \E before \in {GetEventsUpToTime(currentTime)} :
         \E after \in {GetEventsUpToTime(currentTime')} :
           \A k \in 1..Len(before) : Among(before[k], after) ]_vars

\* C26, reached: an event revealed at the start and a later event revealed
\* at a later wall-clock instant
C26_Witness ==
  /\ Len(delivered) = 2
  /\ RLt(GetTime(delivered[1]), GetTime(delivered[2]))
  /\ now > 0
  /\ ticked

\* whether the two instances were started from the same position at the
\* same instant and the first has since ticked last after a wall-clock
\* time d and the second after the wall-clock time d * m, with m the
\* speed of the first
SameAdvance ==
  /\ twins[1].startedAt >= 0
  /\ twins[2].startedAt = twins[1].startedAt
  /\ twins[2].from = twins[1].from
  /\ twins[1].tickedAt >= twins[1].startedAt
  /\ twins[2].tickedAt >= twins[2].startedAt
  /\ RMul(Num(twins[1].tickedAt - twins[1].startedAt), twins[1].speedMultiplier)
       = Num(twins[2].tickedAt - twins[2].startedAt)

AllWrapped == [i \in 1..Len(tripsData) |-> WrappedTrip(tripsData[i].events)]

\* the trips of this instance, each given as a raw array
AllRaw == [i \in 1..Len(tripsData) |-> RawTrip(tripsData[i].events)]

\* C28: the index this instance holds (allEvents, the per-trip lists and
\* their number, minTimestamp, maxTimestamp, totalDuration) is the index
\* of the same trips given as {events: [...]} objects and of the same
\* trips given as raw arrays, whichever form each trip was passed in
C28_RawAndWrappedIndexedAlike ==
  /\ <<allEvents, minTimestamp, maxTimestamp, totalDuration>>
       = <<IndexEventsSecond(AllWrapped).allEvents,
           IndexEventsSecond(AllWrapped).minTimestamp,
           IndexEventsSecond(AllWrapped).maxTimestamp,
           IndexEventsSecond(AllWrapped).totalDuration>>
  /\ IndexEventsSecond(AllRaw) = IndexEventsSecond(AllWrapped)
  /\ EventsByTripSecond(tripsData) = EventsByTripSecond(AllWrapped)
  /\ EventsByTripSecond(AllRaw) = EventsByTripSecond(AllWrapped)
  /\ Len(EventsByTripSecond(AllRaw)) = Len(EventsByTripSecond(AllWrapped))

\* C28, first definition of _indexEvents: the index of the trips is the
\* same for the raw arrays, for the {events: [...]} objects and for any
\* mixture of the two
C28_FirstDefinitionIndexedAlike ==
  /\ IndexEventsFirst(tripsData) = IndexEventsFirst(AllWrapped)
  /\ IndexEventsFirst(AllRaw) = IndexEventsFirst(AllWrapped)
  /\ EventsByTrip(tripsData) = EventsByTrip(AllWrapped)
  /\ EventsByTrip(AllRaw) = EventsByTrip(AllWrapped)

\* the status the priority cancelled, completed, started, idle gives
StatusByPriority(evs) ==
  IF Find(evs, {"trip_cancelled"}) # 0 THEN "cancelled"
  ELSE IF Find(evs, {"trip_completed"}) # 0 THEN "completed"
  ELSE IF Find(evs, {"trip_started"}) # 0 THEN "active"
  ELSE "idle"

\* C29 for calculateTripMetricsFromEvents alone: the status it returns is
\* the one the priority gives
C29_StoreStatusByPriority ==
  storeMetrics # NoMetrics
    => storeMetrics.status = StatusByPriority(tripEvents)

\* C29: the status a metrics function returns is one of idle, active,
\* completed, cancelled and is the one the priority gives: cancelled when
\* a trip_cancelled event is anywhere in the input, otherwise completed
\* when a trip_completed event is, otherwise active when a trip_started
\* event is, otherwise idle, whatever the order of the events and whether
\* or not a location_ping is among them.
C29_StatusByPriority ==
  /\ tripMetrics # NoMetrics
       => /\ tripMetrics.status \in {"idle", "active", "completed", "cancelled"}
          /\ tripMetrics.status = StatusByPriority(tripEvents)
  /\ C29_StoreStatusByPriority

\* C30 for calculateTripMetricsFromEvents alone
C30_StoreCompletionInRange ==
  storeMetrics # NoMetrics
    => /\ RGe(storeMetrics.completionPercentage, Num(0))
       /\ RGe(Num(100), storeMetrics.completionPercentage)

\* C30: the completionPercentage a metrics function returns is within
\* [0, 100] for every input, inputs whose distance travelled exceeds the
\* planned distance included.
C30_CompletionInRange ==
  /\ tripMetrics # NoMetrics
       => /\ RGe(tripMetrics.completionPercentage, Num(0))
          /\ RGe(Num(100), tripMetrics.completionPercentage)
  /\ C30_StoreCompletionInRange

\* C31 for calculateTripMetricsFromEvents alone
C31_StoreCompletedIsFull ==
  storeMetrics.status = "completed"
    => storeMetrics.completionPercentage = Num(100)

\* C31: whenever a metrics function returns the status completed, the
\* completionPercentage it returns is 100.
C31_CompletedIsFull ==
  /\ tripMetrics.status = "completed"
       => tripMetrics.completionPercentage = Num(100)
  /\ C31_StoreCompletedIsFull

\* a step that appends a trip_cancelled event to the events of the trip
\* and applies both functions to the longer array
Cancels ==
  /\ Len(tripEvents') = Len(tripEvents) + 1
  /\ tripEvents'[Len(tripEvents')].event_type = "trip_cancelled"

\* C32 for the status alone: a trip that ends with a trip_cancelled event
\* is cancelled for calculateTripMetricsFromEvents, and a trip that
\* consists of a single trip_cancelled event is cancelled for both
C32_CancelledStatus ==
  [][ Cancels
        => /\ storeMetrics'.status = "cancelled"
           /\ tripEvents = <<>> => tripMetrics'.status = "cancelled" ]_vars

\* C32 for the completionPercentage of calculateTripMetrics alone
C32_CancellationKeepsTripCompletion ==
  [][ Cancels /\ tripMetrics # NoMetrics
        => tripMetrics'.completionPercentage = tripMetrics.completionPercentage ]_vars

\* C32: cancellation does not alter completion: appending a
\* trip_cancelled event to any events of a trip gives the status
\* cancelled and the completionPercentage of the events without it, and a
\* trip of a single trip_cancelled event has the status cancelled.
C32_CancellationKeepsCompletion ==
  [][ Cancels
        => /\ tripMetrics'.status = "cancelled"
           /\ storeMetrics'.status = "cancelled"
           /\ tripMetrics # NoMetrics
                => tripMetrics'.completionPercentage = tripMetrics.completionPercentage
           /\ storeMetrics # NoMetrics
                => storeMetrics'.completionPercentage = storeMetrics.completionPercentage ]_vars

\* whether an event tells that the vehicle is moving, that it is not, or
\* nothing about movement: a location_ping is a position event, not moving
\* unless it is marked moving; a vehicle_stopped event is not moving
Motion(e) ==
  IF e.event_type = "location_ping"
  THEN (IF e.moving = "true" THEN "moving" ELSE "stopped")
  ELSE IF e.event_type = "vehicle_stopped" THEN "stopped"
  ELSE "none"

MotionsOf(evs) ==
  SelectSeq([i \in 1..Len(evs) |-> Motion(evs[i])], LAMBDA m : m # "none")

\* the moving -> not-moving transitions between consecutive events
FallingEdges(evs) ==
  Cardinality({i \in 2..Len(MotionsOf(evs)) :
                 MotionsOf(evs)[i - 1] = "moving" /\ MotionsOf(evs)[i] = "stopped"})

\* the runs of consecutive not-moving events, a run at the very beginning
\* included
StoppedRuns(evs) ==
  FallingEdges(evs)
    + (IF MotionsOf(evs) # <<>> /\ MotionsOf(evs)[1] = "stopped" THEN 1 ELSE 0)

\* C33 for events that all carry movement information and hold no
\* vehicle_stopped event: calculateTripMetrics counts the runs
C33_MarkedRunsCountedOnce ==
  (/\ tripMetrics # NoMetrics
   /\ \A i \in 1..Len(tripEvents) :
        /\ tripEvents[i].event_type # "vehicle_stopped"
        /\ tripEvents[i].event_type = "location_ping"
             => tripEvents[i].moving # Undefined)
    => tripMetrics.stops = StoppedRuns(tripEvents)

\* C33: the stop count a metrics function returns is the number of
\* moving -> not-moving transitions between consecutive position events:
\* a run of consecutive not-moving events (marked moving: false, without
\* movement information, or vehicle_stopped events) counts as one stop,
\* not one per event.  Whether a run at the very beginning of the trip
\* counts is left open.
C33_StopsAreFallingEdges ==
  /\ tripMetrics # NoMetrics
       => tripMetrics.stops \in {FallingEdges(tripEvents), StoppedRuns(tripEvents)}
  /\ storeMetrics # NoMetrics
       => storeMetrics.stops \in {FallingEdges(tripEvents), StoppedRuns(tripEvents)}

\* C34 for calculateTripMetrics alone: a second call with the same events
\* returns what the first returned
C34_TripMetricsDeterministic ==
  [][ tripEvents' = tripEvents /\ tripMetrics # NoMetrics
        => tripMetrics' = tripMetrics ]_vars

\* C34: a metrics function is deterministic: two calls with the same
\* events return the same output in every field, whatever Math.random and
\* the wall clock give.
C34_MetricsDeterministic ==
  [][ tripEvents' = tripEvents
        => /\ tripMetrics # NoMetrics => tripMetrics' = tripMetrics
           /\ storeMetrics # NoMetrics => storeMetrics' = storeMetrics ]_vars

\* C35 for getTripEvents, and for getEvents with the tripId of a trip of
\* the data: every returned event belongs to the requested trip
C35_KnownTripEventsOnly ==
  \/ server.response.tripId = Undefined
  \/ server.response.total # -1 /\ TripAt(server.tripsData, server.response.tripId) = 0
  \/ \A i \in 1..Len(server.response.events) :
       server.response.events[i].tripId = server.response.tripId

\* C35: getEvents and getTripEvents called with a tripId return only
\* events of that trip: every returned event belongs to the requested
\* trip, and for a tripId that is not in the data the result holds no
\* event and getEvents reports total = 0.
C35_OnlyEventsOfTheTrip ==
  server.response.tripId # Undefined
    => /\ \A i \in 1..Len(server.response.events) :
            server.response.events[i].tripId = server.response.tripId
       /\ TripAt(server.tripsData, server.response.tripId) = 0
            => /\ server.response.events = <<>>
               /\ server.response.total \in {0, -1}

\* the simulated time t as currentTime shows it: clipped to whole
\* milliseconds and held at the end of the timeline
ShownTime(t) ==
  IF RGe(TimeClip(t), SimEndTimeRef) THEN SimEndTimeRef ELSE TimeClip(t)

\* the simulated time that playback resumed at resume.at from resume.time
\* has reached now, at the speed of the hook
ContinuedTime ==
  RAdd(hook.resume.time, RMul(Num(now - hook.resume.at), hook.timeMultiplierRef))

\* C36 for a pause during which the wall clock does not advance
C36_ImmediateResumeContinues ==
  [][ animate /\ hook.resume.at # -1 /\ hook.resume.at = hook.animatedAt
        => hook'.currentTime \in {ShownTime(ContinuedTime),
                                  ShownTime(RAdd(ContinuedTime, Num(1)))} ]_vars

\* C36: in useSimulation simulated time advances only while isPlaying is
\* true: the first frame after playback was paused and resumed (no reset,
\* no seek, no speed change in between) shows the simulated time of the
\* pause advanced by the wall-clock time since the resumption times the
\* speed (up to the millisecond lost when the time of the pause was
\* clipped); the paused interval is not added.
C36_PausedTimeIsNotAdded ==
  [][ animate /\ hook.resume.at # -1
        => hook'.currentTime \in {ShownTime(ContinuedTime),
                                  ShownTime(RAdd(ContinuedTime, Num(1)))} ]_vars

\* whether no event occurs twice in sequence s
NoRepeat(s) == \A i, j \in 1..Len(s) : s[i] = s[j] => i = j

\* a render of useMockEventStream with another speedMultiplier while the
\* stream is playing
SpeedChangesWhilePlaying ==
  /\ hook'.speed # hook.speed
  /\ hook.isPlaying
  /\ hook.apiRef # Null
  /\ hook.apiRef.isStreaming

\* C37 for one instance: the instance of the hook delivers no event
\* twice, however it is played, paused and ticked
C37_InstanceDeliversOnce ==
  hook.apiRef # Null => NoRepeat(hook.apiRef.delivered)

\* C37 for useSimulation without a speed change: a frame at the instant
\* of the last frame shows the simulated time that frame showed
C37_FramesOfOneInstantAgree ==
  [][ animate /\ hook.animatedAt = now /\ hook.shown = "frame"
        => hook'.currentTime = hook.currentTime ]_vars

\* C37 for useSimulation: a frame at the instant of the last frame shows
\* the simulated time that frame showed, whatever speed was set in between
C37_SimulationSpeedChangeKeepsTime ==
  [][ animate /\ hook.animatedAt = now /\ hook.shown # "no"
        => hook'.currentTime = hook.currentTime ]_vars

\* C37: through useMockEventStream, changing the speed while playing
\* preserves the playback position: the instance of the hook keeps its
\* currentTime, and the events already delivered are not delivered again
\* into streamEvents.
C37_SpeedChangeKeepsPosition ==
  [][ SpeedChangesWhilePlaying
        => /\ hook'.apiRef.currentTime = hook.apiRef.currentTime
           /\ NoRepeat(hook.streamEvents) => NoRepeat(hook'.streamEvents) ]_vars

\* C38, the half about the completion: the update() that completes a run
\* leaves every event of every trip passed to the event callback, before
\* the completion callbacks are called
C38_CompletionPassesEveryEvent ==
  [][ (update /\ simulationTime' = Null) => engineLog'.once = Places ]_vars

\* C38, for an engine that is never paused at the instant 0 of the epoch:
\* a resume() at another simulated time keeps the record of the processed
\* events, so that no event is passed again
C38_ResumeAwayFromEpochKeepsProcessed ==
  [][ (~isRunning /\ simulationTime # Null /\ simulationTime # Num(0) /\ resume)
        => processedEvents' = processedEvents ]_vars

\* C38: in a run of SimulationEngine with pauses, resumes and changes of
\* speed, without stop, reset or seek, no event is passed to the event
\* callback more than once
C38_EveryEventPassedOnce == engineLog.twice = {}

\* the engine has no processed set for its trips: it was never started, or
\* stop() or the completion has cleared the Map
Uninitialized == processedEvents = <<>>

\* C39, for the operations that read: in every reachable state, before the
\* first start(), after stop() and after the completion included,
\* getProgress() returns a Number from 0 to 1 and getStatistics() returns,
\* for every trip, a count of processed events from 0 to the number of its
\* events
C39_ReadsReturnNormally ==
  /\ RLe(Num(0), EngineGetProgress) /\ RLe(EngineGetProgress, Num(1))
  /\ Statistics.totalTrips = Len(trips)
  /\ \A i \in 1..Len(trips) :
       /\ Statistics.trips[i].processedEvents \in 0..Statistics.trips[i].totalEvents
       /\ RLe(Statistics.trips[i].progress, Num(1))

\* C39, for an engine that has its processed sets: seekToTime returns
\* normally
C39_SeekOfInitializedEngineReturns ==
  [][ \A timestamp \in SeekTimes :
        (~Uninitialized /\ seekToTime(timestamp))
          => engineLog'.thrown = engineLog.thrown ]_vars

\* C39, for pause, resume, reset and stop: none of them ends with an
\* exception, in any state
C39_ControlsReturnNormally ==
  [][ (pause \/ resume \/ engineReset \/ stop \/ start)
        => engineLog'.thrown = engineLog.thrown ]_vars

\* C39: no call of a method of SimulationEngine ends with an exception
C39_NoOperationThrows == ~engineLog.thrown

\* C40, for listeners that do not call back into the engine: after any
\* sequence of startStream, stopStream, setSpeedMultiplier, seekToProgress,
\* reset and ticks, at most one animation-frame callback is requested, it
\* is the one streamFrameId names, and none is requested and streamFrameId
\* is null while the engine is not streaming
C40_OneTickWithQuietListeners ==
  /\ Cardinality(pendingFrames) <= 1
  /\ isStreaming => pendingFrames = {streamFrameId}
  /\ ~isStreaming => (pendingFrames = {} /\ streamFrameId = 0)

\* C40: at most one animation-frame callback is requested at any time, and
\* while the engine is not streaming none is requested and streamFrameId
\* is null, also when a listener calls stopStream() during a tick
C40_AtMostOneTickScheduled ==
  /\ Cardinality(pendingFrames) <= 1
  /\ ~isStreaming => (pendingFrames = {} /\ streamFrameId = 0)

=============================================================================
